---- MODULE Spec2Model ----
(***************************************************************************)
(* cubby-server: the file and folder lifecycle manager.                    *)
(*                                                                         *)
(* The metadata store (Folder, File and User rows), the object store and   *)
(* the request handlers of routes/folders.ts and routes/files.ts.  Every   *)
(* handler is a process that moves from one awaited call to the next; one  *)
(* action is one awaited call together with the synchronous code that      *)
(* follows it up to the next await.  Strings that the code takes apart     *)
(* (folder names and paths, file names) are sequences of one-character     *)
(* strings.                                                                *)
(***************************************************************************)
EXTENDS Integers, Sequences, FiniteSets, TLC

\* ------------------------------------------------------------------ bounds
MaxFolders == 2
MaxFiles == 2
MaxParts == 1
MaxClock == 1
MaxTextLen == 3
MaxTotal == 5
MaxCalls == 4
Quota == 3

Users == {"u1", "u2"}
Procs == {1, 2}
\* folder names a request may carry (body.name, minLength 1, no "/")
Names == {<<"a">>, <<"a", "b">>, <<"$", "$">>}
Filenames == {<<"f">>}
MimeTypes == {"image/png", "text/plain"}
FolderIds == 1..MaxFolders
FileIds == 1..MaxFiles
Sizes == {1, 2}

\* ----------------------------------------------------------------- strings
StartsWith(s, prefix) ==
    /\ Len(prefix) <= Len(s)
    /\ SubSeq(s, 1, Len(prefix)) = prefix

\* s.split("/")
RECURSIVE SplitFrom(_, _, _)
SplitFrom(s, i, cur) ==
    IF i > Len(s) THEN <<cur>>
    ELSE IF s[i] = "/" THEN <<cur>> \o SplitFrom(s, i + 1, <<>>)
    ELSE SplitFrom(s, i + 1, Append(cur, s[i]))

Split(s) == SplitFrom(s, 1, <<>>)

\* parts.join("/")
RECURSIVE Join(_)
Join(parts) ==
    IF Len(parts) = 0 THEN <<>>
    ELSE IF Len(parts) = 1 THEN parts[1]
    ELSE parts[1] \o <<"/">> \o Join(Tail(parts))

Backtick == "backtick"
Apostrophe == "apostrophe"

\* s.indexOf(pat), 1-based; 0 when pat does not occur
IndexOf(s, pat) ==
    LET hits == {i \in 1..(Len(s) - Len(pat) + 1) :
                    SubSeq(s, i, i + Len(pat) - 1) = pat}
    IN  IF hits = {} THEN 0 ELSE CHOOSE i \in hits : \A j \in hits : i <= j

\* The replacement text of String.prototype.replace(string, string): "$$" is
\* "$", "$&" the match, "$" and a backtick the text before it, "$" and an
\* apostrophe the text after it; with a string pattern there are no captures,
\* so any other "$" is literal.  The backtick and the apostrophe are the
\* characters Backtick and Apostrophe.
RECURSIVE GetSubstitution(_, _, _, _)
GetSubstitution(repl, matched, before, after) ==
    IF repl = <<>> THEN <<>>
    ELSE IF Head(repl) = "$" /\ Len(repl) >= 2 /\ repl[2] \in {"$", "&", Backtick, Apostrophe}
    THEN LET rest == SubSeq(repl, 3, Len(repl))
             ins == CASE repl[2] = "$" -> <<"$">>
                      [] repl[2] = "&" -> matched
                      [] repl[2] = Backtick -> before
                      [] OTHER -> after
         IN  ins \o GetSubstitution(rest, matched, before, after)
    ELSE <<Head(repl)>> \o GetSubstitution(Tail(repl), matched, before, after)

\* s.replace(pat, repl): the first occurrence only
Replace(s, pat, repl) ==
    LET i == IndexOf(s, pat)
    IN  IF i = 0 THEN s
        ELSE LET before == SubSeq(s, 1, i - 1)
                 after == SubSeq(s, i + Len(pat), Len(s))
             IN  before \o GetSubstitution(repl, pat, before, after) \o after

\* the rename handler's new path: the last segment replaced by the new name
NewPath(path, name) ==
    LET pathParts == Split(path)
    IN  Join([pathParts EXCEPT ![Len(pathParts)] = name])

\* -------------------------------------------------------------- pagination
Digits == {"0", "1", "2", "3", "4", "5", "6", "7", "8", "9"}

DigitValue(c) ==
    CASE c = "0" -> 0 [] c = "1" -> 1 [] c = "2" -> 2 [] c = "3" -> 3 [] c = "4" -> 4
      [] c = "5" -> 5 [] c = "6" -> 6 [] c = "7" -> 7 [] c = "8" -> 8 [] OTHER -> 9

\* the text of a query value that is absent: parseInt(undefined) parses the
\* string "undefined"
Undefined == <<"u", "n", "d", "e", "f", "i", "n", "e", "d">>

NaN == [nan |-> TRUE, val |-> 0]

\* the leading white space of a string is skipped
RECURSIVE TrimStart(_)
TrimStart(s) ==
    IF s # <<>> /\ Head(s) = " " THEN TrimStart(Tail(s)) ELSE s

HexLetters == {"a", "b", "c", "d", "e", "f", "A", "B", "C", "D", "E", "F"}

HexValue(c) ==
    CASE c \in {"a", "A"} -> 10 [] c \in {"b", "B"} -> 11 [] c \in {"c", "C"} -> 12
      [] c \in {"d", "D"} -> 13 [] c \in {"e", "E"} -> 14 [] c \in {"f", "F"} -> 15
      [] OTHER -> DigitValue(c)

\* the digits of a radix
RadixDigits(radix) == IF radix = 16 THEN Digits \cup HexLetters ELSE Digits

\* the value of the longest prefix of digits of the radix, acc being the
\* value of the digits read so far
RECURSIVE DigitsPrefix(_, _, _)
DigitsPrefix(s, radix, acc) ==
    IF s = <<>> \/ Head(s) \notin RadixDigits(radix) THEN acc
    ELSE DigitsPrefix(Tail(s), radix, radix * acc + HexValue(Head(s)))

\* parseInt(text) without a radix: white space, an optional sign, an optional
\* 0x for radix 16, then digits up to the first other character; NaN when no
\* digit follows
ParseInt(text) ==
    LET s == TrimStart(text)
        signed == s # <<>> /\ Head(s) \in {"-", "+"}
        unsigned == IF signed THEN Tail(s) ELSE s
        hex == Len(unsigned) >= 2 /\ unsigned[1] = "0" /\ unsigned[2] \in {"x", "X"}
        radix == IF hex THEN 16 ELSE 10
        body == IF hex THEN Tail(Tail(unsigned)) ELSE unsigned
        magnitude == DigitsPrefix(body, radix, 0)
    IN  IF body = <<>> \/ Head(body) \notin RadixDigits(radix) THEN NaN
        ELSE [nan |-> FALSE,
              val |-> IF signed /\ Head(s) = "-" THEN 0 - magnitude ELSE magnitude]

\* number || fallback: NaN and 0 are falsy
OrElse(number, fallback) ==
    IF number.nan \/ number.val = 0 THEN fallback ELSE number.val

Max(a, b) == IF a >= b THEN a ELSE b

Min(a, b) == IF a <= b THEN a ELSE b

\* the defaults of parsePaginationParams
DefaultPage == 1
DefaultLimit == 20
DefaultMaxLimit == 100

\* the page is taken as it is, without the lower bound of 1
ParsePaginationParamsUnclamped(query) ==
    [page |-> OrElse(ParseInt(query.page), DefaultPage),
     limit |-> Min(DefaultMaxLimit, Max(1, OrElse(ParseInt(query.limit), DefaultLimit))),
     maxLimit |-> DefaultMaxLimit]

ParsePaginationParams(query) ==
    [page |-> Max(1, OrElse(ParseInt(query.page), DefaultPage)),
     limit |-> Min(DefaultMaxLimit, Max(1, OrElse(ParseInt(query.limit), DefaultLimit))),
     maxLimit |-> DefaultMaxLimit]

GetPrismaOffsetLimit(options) ==
    [skip |-> (options.page - 1) * options.limit, take |-> options.limit]

\* Math.ceil(total / limit) for total >= 0 and limit >= 1
CeilDiv(total, limit) == (total + limit - 1) \div limit

\* hasNext is also reported on the last page
BuildPaginatedResponseOffByOne(data, total, options) ==
    LET totalPages == CeilDiv(total, options.limit)
    IN  [data |-> data,
         pagination |-> [page |-> options.page, limit |-> options.limit,
                         total |-> total, totalPages |-> totalPages,
                         hasNext |-> options.page <= totalPages,
                         hasPrev |-> options.page > 1]]

BuildPaginatedResponse(data, total, options) ==
    LET totalPages == CeilDiv(total, options.limit)
    IN  [data |-> data,
         pagination |-> [page |-> options.page, limit |-> options.limit,
                         total |-> total, totalPages |-> totalPages,
                         hasNext |-> options.page < totalPages,
                         hasPrev |-> options.page > 1]]

\* the rows of a sorted result that skip and take select
Page(sorted, skip, take) ==
    SubSeq(sorted, skip + 1, Min(Len(sorted), skip + take))

\* the code points of the characters of folder names
CharCode(c) ==
    CASE c = "$" -> 36 [] c = "-" -> 45 [] c = "." -> 46 [] c = "/" -> 47
      [] c = "a" -> 97 [] c = "b" -> 98 [] c = "f" -> 102 [] OTHER -> 95

\* s sorts before t, or with it
RECURSIVE NameLeq(_, _)
NameLeq(s, t) ==
    IF s = <<>> THEN TRUE
    ELSE IF t = <<>> THEN FALSE
    ELSE IF Head(s) = Head(t) THEN NameLeq(Tail(s), Tail(t))
    ELSE CharCode(Head(s)) < CharCode(Head(t))

\* one call of parsePaginationParams and getPrismaOffsetLimit
PaginationCall(query) ==
    [query |-> query, options |-> ParsePaginationParams(query),
     offset |-> GetPrismaOffsetLimit(ParsePaginationParams(query))]

\* the request without page and limit
NoQuery == [page |-> Undefined, limit |-> Undefined]

\* ------------------------------------------------------------------- state
VARIABLES
    folders,    \* Folder rows; the id of a row is its index
    files,      \* File rows; the id of a row is its index
    users,      \* User rows: quota and usedSpace
    objects,    \* the object store: key -> the object stored under it
    now,        \* the clock read by Date.now() and new Date()
    req,        \* per request slot: the handler's position and its locals
    bucket      \* the bucket of the object store exists

vars == <<folders, files, users, objects, now, req, bucket>>

NoFolder == [name |-> <<>>, path |-> <<>>, parentId |-> 0, userId |-> "",
             isDeleted |-> FALSE, deletedAt |-> -1]
NoFile == [filename |-> <<>>, mimeType |-> "", size |-> 0, s3Key |-> <<>>,
           userId |-> "", folderId |-> 0, isDeleted |-> FALSE, deletedAt |-> -1]

Idle == [pc |-> "idle", kind |-> "none"]

Init ==
    /\ folders = <<>>
    /\ files = <<>>
    /\ users = [u \in Users |-> [quota |-> Quota, usedSpace |-> 0]]
    /\ objects = <<>>
    /\ now = 0
    /\ req = [p \in Procs |-> Idle]
    /\ bucket = TRUE

\* reply.status(status).send(body): the handler returns and its locals are
\* gone; the slot keeps the request (kind, caller, id) and the reply.
Reply(p, status, body) ==
    [pc |-> "done", kind |-> req[p].kind, userId |-> req[p].userId,
     id |-> req[p].id, status |-> status, body |-> body]

\* the slot is free: no request yet, or the last one has been answered
Free(p) == req[p].pc \in {"idle", "done"}

InFlight(kind) == {q \in Procs : req[q].kind = kind /\ req[q].pc # "done"}

\* the lookup by id alone, without the caller's userId
FindFolderAnyUser(id, userId) ==
    IF id \in DOMAIN folders THEN folders[id] ELSE NoFolder

\* --------------------------------------------------------- metadata store
\* prisma.folder.findFirst({ where: { id, userId } })
FindFolder(id, userId) ==
    IF id \in DOMAIN folders /\ folders[id].userId = userId
    THEN folders[id] ELSE NoFolder

\* prisma.folder.findFirst({ where: { id, userId, isDeleted: false } })
FindLiveFolder(id, userId) ==
    IF id \in DOMAIN folders /\ folders[id].userId = userId /\ ~folders[id].isDeleted
    THEN folders[id] ELSE NoFolder

\* the lookup by path among the non-deleted rows only
FindLiveByPath(userId, path) ==
    LET hits == {i \in DOMAIN folders :
                    /\ folders[i].userId = userId /\ folders[i].path = path
                    /\ ~folders[i].isDeleted}
    IN  IF hits = {} THEN 0 ELSE CHOOSE i \in hits : TRUE

\* the id of the row found by findUnique({ where: { userId_path } }), 0 if none
FindByPath(userId, path) ==
    LET hits == {i \in DOMAIN folders :
                    folders[i].userId = userId /\ folders[i].path = path}
    IN  IF hits = {} THEN 0 ELSE CHOOSE i \in hits : TRUE

TxPcs == {"r_update", "r_find", "r_desc"}

\* the uncommitted updates of slot q's open transaction: row id -> name, path
TxOf(q) == IF req[q].pc \in TxPcs THEN req[q].tx ELSE <<>>

\* The Folder rows as the statements of p's open transaction see them: the
\* committed rows with p's own uncommitted updates on top.
TxView(p) ==
    [i \in DOMAIN folders |->
        IF i \in DOMAIN TxOf(p)
        THEN [folders[i] EXCEPT !.name = TxOf(p)[i].name, !.path = TxOf(p)[i].path]
        ELSE folders[i]]

\* Row i carries an uncommitted update of another request's transaction: an
\* update of it waits for that transaction to end.
Locked(p, i) == \E q \in Procs \ {p} : i \in DOMAIN TxOf(q)

\* Writing (userId, path) waits while another open transaction holds a row
\* whose committed or uncommitted path is that path.
PathWaits(p, userId, path, self) ==
    \E q \in Procs \ {p} : \E j \in DOMAIN TxOf(q) :
        /\ j # self
        /\ folders[j].userId = userId
        /\ (folders[j].path = path \/ TxOf(q)[j].path = path)

\* no index: a write of a path another row has goes through
PathNeverTaken(p, userId, path, self) == FALSE

\* The unique index on (userId, path): another row, deleted or not, has it.
PathTaken(p, userId, path, self) ==
    \E j \in DOMAIN folders :
        /\ j # self
        /\ TxView(p)[j].userId = userId
        /\ TxView(p)[j].path = path

\* the relation counts of _count: { select: { files: true, children: true } }
CountFiles(id) == Cardinality({f \in DOMAIN files : files[f].folderId = id})

CountChildren(id) == Cardinality({c \in DOMAIN folders : folders[c].parentId = id})

\* ------------------------------------------------- POST /folders (create)
\* The request arrives; with a parentId the parent is looked up and the path
\* is built from the parent's path.
CreateFindParent(p, userId, name, parentId) ==
    /\ Free(p)
    /\ Len(folders) + Cardinality(InFlight("createFolder")) < MaxFolders
    /\ parentId <= Len(folders) + 1
    /\ LET parent == FindFolder(parentId, userId)
           r == [pc |-> "c_existing", kind |-> "createFolder", userId |-> userId,
                 id |-> parentId, name |-> name, path |-> <<"/">> \o name]
       IN  req' = [req EXCEPT ![p] =
                IF parentId = 0 THEN r
                ELSE IF parent = NoFolder
                THEN [pc |-> "done", kind |-> "createFolder", userId |-> userId,
                      id |-> parentId, status |-> 404, body |-> <<>>]
                ELSE [r EXCEPT !.path = parent.path \o <<"/">> \o name]]
    /\ UNCHANGED <<folders, files, users, objects, now, bucket>>

\* findUnique on (userId, path): 409 when a row has the path
CreateFindExisting(p) ==
    /\ req[p].pc = "c_existing"
    /\ req' = [req EXCEPT ![p] =
            IF FindByPath(req[p].userId, req[p].path) # 0
            THEN Reply(p, 409, <<>>) ELSE [req[p] EXCEPT !.pc = "c_create"]]
    /\ UNCHANGED <<folders, files, users, objects, now, bucket>>

\* prisma.folder.create; a violation of the unique index is caught: 500
CreateInsert(p) ==
    /\ req[p].pc = "c_create"
    /\ ~PathWaits(p, req[p].userId, req[p].path, 0)
    /\ IF PathTaken(p, req[p].userId, req[p].path, 0)
       THEN /\ req' = [req EXCEPT ![p] = Reply(p, 500, <<>>)]
            /\ UNCHANGED folders
       ELSE /\ folders' = Append(folders,
                    [name |-> req[p].name, path |-> req[p].path,
                     parentId |-> req[p].id, userId |-> req[p].userId,
                     isDeleted |-> FALSE, deletedAt |-> -1])
            /\ req' = [req EXCEPT ![p] = Reply(p, 201, req[p].path)]
    /\ UNCHANGED <<files, users, objects, now, bucket>>

\* ------------------------------------------------ PATCH /folders/:id (rename)
RenameFind(p, userId, id, name) ==
    /\ Free(p)
    /\ id <= Len(folders) + 1
    /\ LET folder == FindLiveFolder(id, userId)
       IN  req' = [req EXCEPT ![p] =
                IF folder = NoFolder
                THEN [pc |-> "done", kind |-> "renameFolder", userId |-> userId,
                      id |-> id, status |-> 404, body |-> <<>>]
                ELSE [pc |-> "r_existing", kind |-> "renameFolder",
                      userId |-> userId, id |-> id, name |-> name,
                      folder |-> folder, newPath |-> NewPath(folder.path, name),
                      descendants |-> {}, tx |-> <<>>]]
    /\ UNCHANGED <<folders, files, users, objects, now, bucket>>

\* the transaction is entered without the lookup of the new path
RenameSkipExisting(p) ==
    /\ req[p].pc = "r_existing"
    /\ req' = [req EXCEPT ![p].pc = "r_update"]
    /\ UNCHANGED <<folders, files, users, objects, now, bucket>>

\* findUnique on (userId, newPath): 409 when another row has it
RenameFindExisting(p) ==
    /\ req[p].pc = "r_existing"
    /\ LET existing == FindByPath(req[p].userId, req[p].newPath)
       IN  req' = [req EXCEPT ![p] =
                IF existing # 0 /\ existing # req[p].id
                THEN Reply(p, 409, <<>>) ELSE [req[p] EXCEPT !.pc = "r_update"]]
    /\ UNCHANGED <<folders, files, users, objects, now, bucket>>

\* The update applied to the committed row at once, as outside a transaction.
TxWriteUnisolated(p, i, name, path) ==
    /\ req' = [req EXCEPT ![p].pc = IF req[p].pc = "r_update" THEN "r_find" ELSE @,
                          ![p].descendants = {d \in @ : d.id # i}]
    /\ folders' = [folders EXCEPT ![i].name = name, ![i].path = path]

\* An update of a Folder row inside the transaction: recorded with the
\* transaction's uncommitted updates.
TxWrite(p, i, name, path) ==
    /\ req' = [req EXCEPT ![p].tx = (i :> [name |-> name, path |-> path]) @@ @,
                          ![p].pc = IF req[p].pc = "r_update" THEN "r_find" ELSE @,
                          ![p].descendants = {d \in @ : d.id # i}]
    /\ UNCHANGED folders

\* The failing statement's earlier updates stay: no rollback.
TxNoRollback(p) ==
    /\ req' = [req EXCEPT ![p] = Reply(p, 500, <<>>)]
    /\ folders' = TxView(p)

\* A statement of the transaction throws: the transaction is rolled back and
\* the handler's catch replies 500.
TxRollback(p) ==
    /\ req' = [req EXCEPT ![p] = Reply(p, 500, <<>>)]
    /\ UNCHANGED folders

\* tx.folder.update({ where: { id }, data: { name, path: newPath } })
RenameTxUpdate(p) ==
    /\ req[p].pc = "r_update"
    /\ ~Locked(p, req[p].id)
    /\ ~PathWaits(p, req[p].userId, req[p].newPath, req[p].id)
    /\ IF PathTaken(p, req[p].userId, req[p].newPath, req[p].id)
       THEN TxRollback(p)
       ELSE TxWrite(p, req[p].id, req[p].name, req[p].newPath)
    /\ UNCHANGED <<files, users, objects, now, bucket>>

\* tx.folder.findMany({ where: { userId, path: { startsWith: folder.path + "/" } } })
RenameTxFindDescendants(p) ==
    /\ req[p].pc = "r_find"
    /\ req' = [req EXCEPT ![p].pc = "r_desc",
                          ![p].descendants =
            {[id |-> i, path |-> TxView(p)[i].path] : i \in
                {j \in DOMAIN folders :
                    /\ TxView(p)[j].userId = req[p].userId
                    /\ StartsWith(TxView(p)[j].path, req[p].folder.path \o <<"/">>)}}]
    /\ UNCHANGED <<folders, files, users, objects, now, bucket>>

\* one turn of the loop over the descendants: desc.path.replace(folder.path,
\* newPath), then tx.folder.update of that row
RenameTxUpdateDescendant(p) ==
    /\ req[p].pc = "r_desc"
    /\ \E desc \in req[p].descendants :
        LET updatedDescPath == Replace(desc.path, req[p].folder.path, req[p].newPath)
        IN  /\ ~Locked(p, desc.id)
            /\ ~PathWaits(p, req[p].userId, updatedDescPath, desc.id)
            /\ IF PathTaken(p, req[p].userId, updatedDescPath, desc.id)
               THEN TxRollback(p)
               ELSE TxWrite(p, desc.id, TxView(p)[desc.id].name, updatedDescPath)
    /\ UNCHANGED <<files, users, objects, now, bucket>>

\* The callback returned: the transaction commits, and every update of it
\* becomes visible in the one step; the reply is the updated row of the
\* folder (id, name, path).
RenameTxCommit(p) ==
    /\ req[p].pc = "r_desc"
    /\ req[p].descendants = {}
    /\ folders' = TxView(p)
    /\ req' = [req EXCEPT ![p] =
            Reply(p, 200, [id |-> req[p].id, name |-> req[p].name,
                           path |-> req[p].newPath])]
    /\ UNCHANGED <<files, users, objects, now, bucket>>

\* A statement of the transaction fails in the metadata store.
RenameTxFail(p) ==
    /\ req[p].pc \in TxPcs
    /\ TxRollback(p)
    /\ UNCHANGED <<files, users, objects, now, bucket>>

\* ---------------------------------------------- DELETE /folders/:id
DeleteFolderFind(p, userId, id) ==
    /\ Free(p)
    /\ id <= Len(folders) + 1
    /\ LET folder == FindLiveFolder(id, userId)
           r == [pc |-> "d_update", kind |-> "deleteFolder", userId |-> userId,
                 id |-> id]
       IN  req' = [req EXCEPT ![p] =
                IF folder = NoFolder
                THEN [r EXCEPT !.pc = "done"] @@ [status |-> 404, body |-> <<>>]
                ELSE IF CountFiles(id) > 0 \/ CountChildren(id) > 0
                THEN [r EXCEPT !.pc = "done"] @@ [status |-> 400, body |-> <<>>]
                ELSE r]
    /\ UNCHANGED <<folders, files, users, objects, now, bucket>>

\* prisma.folder.update({ where: { id }, data: { isDeleted: true, deletedAt } })
DeleteFolderUpdate(p) ==
    /\ req[p].pc = "d_update"
    /\ ~Locked(p, req[p].id)
    /\ folders' = [folders EXCEPT ![req[p].id].isDeleted = TRUE,
                                  ![req[p].id].deletedAt = now]
    /\ req' = [req EXCEPT ![p] = Reply(p, 204, <<>>)]
    /\ UNCHANGED <<files, users, objects, now, bucket>>

\* a step of slot p on a create request of a user in U with a name in N
CreateStep(p, U, N) ==
    \/ \E u \in U, n \in N, parentId \in 0..MaxFolders :
            CreateFindParent(p, u, n, parentId)
    \/ CreateFindExisting(p)
    \/ CreateInsert(p)

\* a step of slot p on a rename request of a user in U to a name in N
RenameStep(p, U, N) ==
    \/ \E u \in U, id \in FolderIds, n \in N : RenameFind(p, u, id, n)
    \/ RenameFindExisting(p)
    \/ RenameTxUpdate(p)
    \/ RenameTxFindDescendants(p)
    \/ RenameTxUpdateDescendant(p)
    \/ RenameTxCommit(p)
    \/ RenameTxFail(p)

\* a step of slot p on a folder delete request of a user in U
DeleteFolderStep(p, U) ==
    \/ \E u \in U, id \in FolderIds : DeleteFolderFind(p, u, id)
    \/ DeleteFolderUpdate(p)

FolderStep(p, U, N) ==
    \/ CreateStep(p, U, N)
    \/ RenameStep(p, U, N)
    \/ DeleteFolderStep(p, U)

\* folder requests, one at a time
NextFoldersSeq == FolderStep(1, Users, Names)

SpecFoldersSeq == Init /\ [][NextFoldersSeq]_vars

\* Folder requests of one user, interleaved at every await: any request in
\* slot 1 while slot 2 serves renames.
NextFolders ==
    \/ FolderStep(1, {"u1"}, {<<"a">>, <<"a", "b">>})
    \/ RenameStep(2, {"u1"}, {<<"a">>, <<"a", "b">>})

SpecFolders == Init /\ [][NextFolders]_vars

\* Renames of one user in slot 2 while slot 1 serves creates and deletes of
\* the same user.
NextRename ==
    \/ CreateStep(1, {"u1"}, {<<"a">>, <<"a", "b">>})
    \/ DeleteFolderStep(1, {"u1"})
    \/ RenameStep(2, {"u1"}, {<<"a">>, <<"a", "b">>})

SpecRename == Init /\ [][NextRename]_vars

\* ------------------------------------------------------------ object store
\* filename.replace(/[^a-zA-Z0-9.-]/g, "_"), on the characters of the model
KeyChars == {"a", "b", "f", ".", "-"}

Sanitize(filename) ==
    [i \in 1..Len(filename) |-> IF filename[i] \in KeyChars THEN filename[i] ELSE "_"]

\* `users/${userId}/${timestamp}-${sanitized}`
GenerateKey(userId, filename) == <<"users", userId, now, Sanitize(filename)>>

\* the write leaves only the new object in the bucket
PutObjectAlone(key, size, userId, originalName) ==
    key :> [size |-> size, userId |-> userId, originalName |-> originalName]

\* PutObject: the object under the key is written, or overwritten
PutObject(key, size, userId, originalName) ==
    (key :> [size |-> size, userId |-> userId, originalName |-> originalName])
        @@ objects

\* DeleteObject: deleting a missing key succeeds as well
DeleteObject(key) == [k \in DOMAIN objects \ {key} |-> objects[k]]

\* ALLOWED_MIME_TYPES.images
AllowedMimeTypes ==
    {"image/jpeg", "image/jpg", "image/png", "image/gif", "image/webp",
     "image/svg+xml", "image/bmp", "image/tiff", "image/heic", "image/heif"}

IsAllowedMimeType(mimeType) == mimeType \in AllowedMimeTypes

\* file.mimetype || mime.lookup(file.filename) || "application/octet-stream";
\* the file names of the model carry no extension the lookup knows
ResolveMimeType(part) ==
    IF part.mimetype # "" THEN part.mimetype ELSE "application/octet-stream"

\* the unique index on File.s3Key
S3KeyTaken(key) == \E f \in DOMAIN files : files[f].s3Key = key

\* the lookup by id alone, without the caller's userId
FindLiveFileAnyUser(id, userId) ==
    IF id \in DOMAIN files /\ ~files[id].isDeleted THEN files[id] ELSE NoFile

\* prisma.file.findFirst({ where: { id, userId, isDeleted: false } })
FindLiveFile(id, userId) ==
    IF id \in DOMAIN files /\ files[id].userId = userId /\ ~files[id].isDeleted
    THEN files[id] ELSE NoFile

\* the parts of the uploads in flight that may still become File rows
PendingParts ==
    LET n(q) == Len(req[q].parts) + (IF req[q].pc \in {"u_put", "u_create"} THEN 1 ELSE 0)
        RECURSIVE Sum(_)
        Sum(S) == IF S = {} THEN 0
                  ELSE LET q == CHOOSE x \in S : TRUE IN n(q) + Sum(S \ {q})
    IN  Sum(InFlight("upload"))

\* --------------------------------------------------- POST /files/upload
\* The request goes on to its parts whatever the folderId is.
UploadFindFolderUnchecked(p, userId, folderId, parts) ==
    /\ Free(p)
    /\ folderId <= Len(folders) + 1
    /\ req' = [req EXCEPT ![p] =
            [pc |-> "u_user", kind |-> "upload", userId |-> userId,
             id |-> folderId, parts |-> parts, uploadedFiles |-> <<>>]]
    /\ UNCHANGED <<folders, files, users, objects, now, bucket>>

\* The request arrives with its parts; a folderId is looked up first.
UploadFindFolder(p, userId, folderId, parts) ==
    /\ Free(p)
    /\ folderId <= Len(folders) + 1
    /\ Len(files) + PendingParts + Len(parts) <= MaxFiles
    /\ req' = [req EXCEPT ![p] =
            IF folderId # 0 /\ FindLiveFolder(folderId, userId) = NoFolder
            THEN [pc |-> "done", kind |-> "upload", userId |-> userId,
                  id |-> folderId, status |-> 404, body |-> <<>>]
            ELSE [pc |-> "u_user", kind |-> "upload", userId |-> userId,
                  id |-> folderId, parts |-> parts, uploadedFiles |-> <<>>]]
    /\ UNCHANGED <<folders, files, users, objects, now, bucket>>

\* The space of the first part is reserved while the user is read, and the
\* snapshot is the row as it was before.
UploadFindUserReserving(p) ==
    /\ req[p].pc = "u_user"
    /\ req' = [req EXCEPT ![p] = [pc |-> "u_part"] @@ req[p] @@ [user |-> users[req[p].userId]]]
    /\ users' = [users EXCEPT ![req[p].userId].usedSpace = @ + Head(req[p].parts).size]
    /\ UNCHANGED <<folders, files, objects, now, bucket>>

\* prisma.user.findUnique: the quota and the used space, read once
UploadFindUser(p) ==
    /\ req[p].pc = "u_user"
    /\ req' = [req EXCEPT ![p] = [pc |-> "u_part"] @@ req[p] @@ [user |-> users[req[p].userId]]]
    /\ UNCHANGED <<folders, files, users, objects, now, bucket>>

\* file.file.bytesRead before the part has been read: whatever the parser has
\* pushed into the stream so far, from nothing to the whole file
FileSizeSeen(size) == 0..size

\* The next part of the request: the quota check on the bytes seen so far,
\* then toBuffer(), the MIME check and the object key.  With no part left the
\* handler replies 201 with the files it has stored.
UploadNextPart(p) ==
    /\ req[p].pc = "u_part"
    /\ IF req[p].parts = <<>>
       THEN req' = [req EXCEPT ![p] = Reply(p, 201, req[p].uploadedFiles)]
       ELSE LET file == Head(req[p].parts)
                user == req[p].user
            IN  \E fileSize \in FileSizeSeen(file.size) :
                  req' = [req EXCEPT ![p] =
                    IF user.usedSpace + fileSize > user.quota
                    THEN Reply(p, 413, [quota |-> user.quota, used |-> user.usedSpace,
                                        available |-> user.quota - user.usedSpace])
                    ELSE IF ~IsAllowedMimeType(ResolveMimeType(file))
                    THEN Reply(p, 400, <<>>)
                    ELSE [pc |-> "u_put", parts |-> Tail(req[p].parts),
                          filename |-> file.filename,
                          mimeType |-> ResolveMimeType(file),
                          actualSize |-> file.size,
                          s3Key |-> GenerateKey(req[p].userId, file.filename)]
                         @@ req[p]]
    /\ UNCHANGED <<folders, files, users, objects, now, bucket>>

\* The handler goes on to the row without the object having been written.
UploadPutUnacknowledged(p) ==
    /\ req[p].pc = "u_put"
    /\ req' = [req EXCEPT ![p].pc = "u_create"]
    /\ UNCHANGED <<folders, files, users, objects, now, bucket>>

\* storageService.uploadFile(s3Key, buffer, ...)
UploadPut(p) ==
    /\ req[p].pc = "u_put"
    /\ objects' = PutObject(req[p].s3Key, req[p].actualSize, req[p].userId,
                            req[p].filename)
    /\ req' = [req EXCEPT ![p].pc = "u_create"]
    /\ UNCHANGED <<folders, files, users, now, bucket>>

\* prisma.file.create; a violation of the unique index on s3Key is caught: 500
UploadCreateRow(p) ==
    /\ req[p].pc = "u_create"
    /\ IF S3KeyTaken(req[p].s3Key)
       THEN /\ req' = [req EXCEPT ![p] = Reply(p, 500, <<>>)]
            /\ UNCHANGED files
       ELSE /\ files' = Append(files,
                    [filename |-> req[p].filename, mimeType |-> req[p].mimeType,
                     size |-> req[p].actualSize, s3Key |-> req[p].s3Key,
                     userId |-> req[p].userId, folderId |-> req[p].id,
                     isDeleted |-> FALSE, deletedAt |-> -1])
            /\ req' = [req EXCEPT ![p] =
                    [pc |-> "u_increment", dbFile |-> Len(files) + 1] @@ req[p]]
    /\ UNCHANGED <<folders, users, objects, now, bucket>>

\* the counter goes up by one per file, not by the file's size
IncrementByOne(usedSpace, size) == usedSpace + 1

\* usedSpace: { increment: actualSize }
Increment(usedSpace, size) == usedSpace + size

\* the counter goes down by one per file, not by the file's size
DecrementByOne(usedSpace, size) == usedSpace - 1

\* usedSpace: { decrement: file.size }
Decrement(usedSpace, size) == usedSpace - size

\* The snapshot of the user is refreshed with the counter after each file.
UploadIncrementRefreshing(p) ==
    /\ req[p].pc = "u_increment"
    /\ users' = [users EXCEPT ![req[p].userId].usedSpace =
                    Increment(@, req[p].actualSize)]
    /\ req' = [req EXCEPT ![p].pc = "u_part",
                          ![p].user = users'[req[p].userId],
                          ![p].uploadedFiles = Append(@,
                              [id |-> req[p].dbFile, filename |-> req[p].filename,
                               size |-> files[req[p].dbFile].size,
                               mimeType |-> req[p].mimeType])]
    /\ UNCHANGED <<folders, files, objects, now, bucket>>

\* The counter is written as the snapshot plus the size, not incremented.
UploadIncrementFromSnapshot(p) ==
    /\ req[p].pc = "u_increment"
    /\ users' = [users EXCEPT ![req[p].userId].usedSpace =
                    Increment(req[p].user.usedSpace, req[p].actualSize)]
    /\ req' = [req EXCEPT ![p].pc = "u_part",
                          ![p].uploadedFiles = Append(@,
                              [id |-> req[p].dbFile, filename |-> req[p].filename,
                               size |-> files[req[p].dbFile].size,
                               mimeType |-> req[p].mimeType])]
    /\ UNCHANGED <<folders, files, objects, now, bucket>>

\* prisma.user.update of usedSpace, then uploadedFiles.push
UploadIncrement(p) ==
    /\ req[p].pc = "u_increment"
    /\ users' = [users EXCEPT ![req[p].userId].usedSpace =
                    Increment(@, req[p].actualSize)]
    /\ req' = [req EXCEPT ![p].pc = "u_part",
                          ![p].uploadedFiles = Append(@,
                              [id |-> req[p].dbFile, filename |-> req[p].filename,
                               size |-> files[req[p].dbFile].size,
                               mimeType |-> req[p].mimeType])]
    /\ UNCHANGED <<folders, files, objects, now, bucket>>

\* The catch takes the counter back to the snapshot of the request.
UploadFailRollingBack(p) ==
    /\ req[p].pc \in {"u_put", "u_create", "u_increment"}
    /\ req' = [req EXCEPT ![p] = Reply(p, 500, <<>>)]
    /\ users' = [users EXCEPT ![req[p].userId].usedSpace = req[p].user.usedSpace]
    /\ UNCHANGED <<folders, files, objects, now, bucket>>

\* the awaited store or metadata call throws: the catch replies 500
UploadFail(p) ==
    /\ req[p].pc \in {"u_put", "u_create", "u_increment"}
    /\ req' = [req EXCEPT ![p] = Reply(p, 500, <<>>)]
    /\ UNCHANGED <<folders, files, users, objects, now, bucket>>

\* ---------------------------------------------------- DELETE /files/:id
FileDeleteFind(p, userId, id) ==
    /\ Free(p)
    /\ id <= Len(files) + 1
    /\ LET file == FindLiveFile(id, userId)
       IN  req' = [req EXCEPT ![p] =
                IF file = NoFile
                THEN [pc |-> "done", kind |-> "deleteFile", userId |-> userId,
                      id |-> id, status |-> 404, body |-> <<>>]
                ELSE [pc |-> "fd_object", kind |-> "deleteFile", userId |-> userId,
                      id |-> id, file |-> file]]
    /\ UNCHANGED <<folders, files, users, objects, now, bucket>>

\* storageService.deleteFile(file.s3Key)
FileDeleteObject(p) ==
    /\ req[p].pc = "fd_object"
    /\ objects' = DeleteObject(req[p].file.s3Key)
    /\ req' = [req EXCEPT ![p].pc = "fd_update"]
    /\ UNCHANGED <<folders, files, users, now, bucket>>

\* prisma.file.update({ where: { id }, data: { isDeleted: true, deletedAt } })
FileDeleteUpdate(p) ==
    /\ req[p].pc = "fd_update"
    /\ files' = [files EXCEPT ![req[p].id].isDeleted = TRUE,
                              ![req[p].id].deletedAt = now]
    /\ req' = [req EXCEPT ![p].pc = "fd_decrement"]
    /\ UNCHANGED <<folders, users, objects, now, bucket>>

\* The soft delete is undone when the decrement fails.
FileDeleteDecrementUndoing(p) ==
    /\ req[p].pc = "fd_decrement"
    /\ \/ /\ users' = [users EXCEPT ![req[p].userId].usedSpace =
                            Decrement(@, req[p].file.size)]
          /\ req' = [req EXCEPT ![p] = Reply(p, 204, <<>>)]
          /\ UNCHANGED files
       \/ /\ files' = [files EXCEPT ![req[p].id].isDeleted = FALSE,
                                    ![req[p].id].deletedAt = -1]
          /\ req' = [req EXCEPT ![p] = Reply(p, 500, <<>>)]
          /\ UNCHANGED users
    /\ UNCHANGED <<folders, objects, now, bucket>>

\* The delete is answered 204 without the decrement.
FileDeleteDecrementSkipped(p) ==
    /\ req[p].pc = "fd_decrement"
    /\ req' = [req EXCEPT ![p] = Reply(p, 204, <<>>)]
    /\ UNCHANGED <<folders, files, users, objects, now, bucket>>

\* prisma.user.update of usedSpace, then 204
FileDeleteDecrement(p) ==
    /\ req[p].pc = "fd_decrement"
    /\ users' = [users EXCEPT ![req[p].userId].usedSpace =
                    Decrement(@, req[p].file.size)]
    /\ req' = [req EXCEPT ![p] = Reply(p, 204, <<>>)]
    /\ UNCHANGED <<folders, files, objects, now, bucket>>

\* The row is marked deleted although the call before it threw.
FileDeleteFailMarking(p) ==
    /\ req[p].pc \in {"fd_object", "fd_update", "fd_decrement"}
    /\ req' = [req EXCEPT ![p] = Reply(p, 500, <<>>)]
    /\ files' = [files EXCEPT ![req[p].id].isDeleted = TRUE,
                              ![req[p].id].deletedAt = now]
    /\ UNCHANGED <<folders, users, objects, now, bucket>>

\* the awaited store or metadata call throws: the catch replies 500
FileDeleteFail(p) ==
    /\ req[p].pc \in {"fd_object", "fd_update", "fd_decrement"}
    /\ req' = [req EXCEPT ![p] = Reply(p, 500, <<>>)]
    /\ UNCHANGED <<folders, files, users, objects, now, bucket>>

\* ------------------------------------------- GET /files/:id/download
DownloadFind(p, userId, id) ==
    /\ Free(p)
    /\ id <= Len(files) + 1
    /\ LET file == FindLiveFile(id, userId)
       IN  req' = [req EXCEPT ![p] =
                IF file = NoFile
                THEN [pc |-> "done", kind |-> "download", userId |-> userId,
                      id |-> id, status |-> 404, body |-> <<>>]
                ELSE [pc |-> "dl_object", kind |-> "download", userId |-> userId,
                      id |-> id, file |-> file]]
    /\ UNCHANGED <<folders, files, users, objects, now, bucket>>

\* storageService.downloadFile(file.s3Key): GetObject throws for a missing
\* key and the catch replies 500; else the headers come from the row and the
\* body is the object
DownloadObject(p) ==
    /\ req[p].pc = "dl_object"
    /\ req' = [req EXCEPT ![p] =
            IF req[p].file.s3Key \in DOMAIN objects
            THEN Reply(p, 200, [mimeType |-> req[p].file.mimeType,
                                filename |-> req[p].file.filename,
                                size |-> req[p].file.size,
                                stream |-> objects[req[p].file.s3Key]])
            ELSE Reply(p, 500, <<>>)]
    /\ UNCHANGED <<folders, files, users, objects, now, bucket>>

\* The failed read is answered as a missing file.
DownloadFailNotFound(p) ==
    /\ req[p].pc = "dl_object"
    /\ req' = [req EXCEPT ![p] = Reply(p, 404, <<>>)]
    /\ UNCHANGED <<folders, files, users, objects, now, bucket>>

\* the object-store read throws: the catch replies 500
DownloadFail(p) ==
    /\ req[p].pc = "dl_object"
    /\ req' = [req EXCEPT ![p] = Reply(p, 500, <<>>)]
    /\ UNCHANGED <<folders, files, users, objects, now, bucket>>

\* ------------------------------------------------------ GET /folders
\* the ids in S as a sequence, names ascending
RECURSIVE ByNameAsc(_)
ByNameAsc(S) ==
    IF S = {} THEN <<>>
    ELSE LET first == CHOOSE i \in S :
                        \A j \in S : NameLeq(folders[i].name, folders[j].name)
         IN  <<first>> \o ByNameAsc(S \ {first})

\* the ids in S as a sequence, newest row first
RECURSIVE NewestFirst(_)
NewestFirst(S) ==
    IF S = {} THEN <<>>
    ELSE LET first == CHOOSE i \in S : \A j \in S : i >= j
         IN  <<first>> \o NewestFirst(S \ {first})

\* where: { userId, isDeleted: false, parentId: parentId || null }
ListWhere(userId, parentId) ==
    {i \in DOMAIN folders : /\ folders[i].userId = userId
                            /\ ~folders[i].isDeleted
                            /\ folders[i].parentId = parentId}

\* where: { parentId: id, isDeleted: false }
SubfoldersWhere(id) ==
    {c \in DOMAIN folders : folders[c].parentId = id /\ ~folders[c].isDeleted}

\* where: { folderId: id, isDeleted: false }
FilesWhere(id) ==
    {f \in DOMAIN files : files[f].folderId = id /\ ~files[f].isDeleted}

\* the rows of a folder page as the handlers map them
FolderRows(ids) ==
    [k \in DOMAIN ids |-> [id |-> ids[k], name |-> folders[ids[k]].name,
                           path |-> folders[ids[k]].path,
                           parentId |-> folders[ids[k]].parentId,
                           fileCount |-> CountFiles(ids[k])]]

SubfolderRows(ids) ==
    [k \in DOMAIN ids |-> [id |-> ids[k], name |-> folders[ids[k]].name,
                           fileCount |-> CountFiles(ids[k])]]

FileRows(ids) ==
    [k \in DOMAIN ids |-> [id |-> ids[k], filename |-> files[ids[k]].filename,
                           size |-> files[ids[k]].size,
                           mimeType |-> files[ids[k]].mimeType]]

\* The request arrives: the query is parsed and the two queries of
\* Promise.all are sent.
ListStart(p, userId, parentId, query) ==
    /\ Free(p)
    /\ parentId <= Len(folders) + 1
    /\ req' = [req EXCEPT ![p] =
            [pc |-> "l_query", kind |-> "listFolders", userId |-> userId,
             id |-> parentId, query |-> query,
             paginationOpts |-> ParsePaginationParams(query),
             offset |-> GetPrismaOffsetLimit(ParsePaginationParams(query)),
             pending |-> {"data", "total"}, data |-> <<>>, total |-> 0]]
    /\ UNCHANGED <<folders, files, users, objects, now, bucket>>

\* One of the two queries is answered from the rows as they are now; with
\* both answers the handler replies.
ListQuery(p) ==
    /\ req[p].pc = "l_query"
    /\ \E q \in req[p].pending :
        LET opts == req[p].paginationOpts
            offset == req[p].offset
            where == ListWhere(req[p].userId, req[p].id)
            r == IF q = "data"
                 THEN [req[p] EXCEPT !.pending = @ \ {q},
                            !.data = FolderRows(Page(ByNameAsc(where),
                                                     offset.skip, offset.take))]
                 ELSE [req[p] EXCEPT !.pending = @ \ {q},
                            !.total = Cardinality(where)]
        IN  req' = [req EXCEPT ![p] =
                IF r.pending = {}
                THEN Reply(p, 200, BuildPaginatedResponse(r.data, r.total, opts))
                ELSE r]
    /\ UNCHANGED <<folders, files, users, objects, now, bucket>>

\* ------------------------------------------ GET /folders/:id/contents
\* The query is parsed, then the folder is looked up.
ContentsFind(p, userId, id, query) ==
    /\ Free(p)
    /\ id <= Len(folders) + 1
    /\ LET folder == FindLiveFolder(id, userId)
       IN  req' = [req EXCEPT ![p] =
                IF folder = NoFolder
                THEN [pc |-> "done", kind |-> "contents", userId |-> userId,
                      id |-> id, status |-> 404, body |-> <<>>]
                ELSE [pc |-> "ct_query", kind |-> "contents", userId |-> userId,
                      id |-> id, folder |-> folder,
                      paginationOpts |-> ParsePaginationParams(query),
                      offset |-> GetPrismaOffsetLimit(ParsePaginationParams(query)),
                      pending |-> {"subfolders", "subfoldersTotal",
                                   "files", "filesTotal"},
                      subfolders |-> <<>>, subfoldersTotal |-> 0,
                      files |-> <<>>, filesTotal |-> 0]]
    /\ UNCHANGED <<folders, files, users, objects, now, bucket>>

\* One of the four queries of Promise.all is answered from the rows as they
\* are now; with all four answers the handler replies.
ContentsQuery(p) ==
    /\ req[p].pc = "ct_query"
    /\ \E q \in req[p].pending :
        LET opts == req[p].paginationOpts
            offset == req[p].offset
            id == req[p].id
            r == CASE q = "subfolders" ->
                        [req[p] EXCEPT !.pending = @ \ {q},
                            !.subfolders = SubfolderRows(Page(
                                ByNameAsc(SubfoldersWhere(id)),
                                offset.skip, offset.take))]
                   [] q = "subfoldersTotal" ->
                        [req[p] EXCEPT !.pending = @ \ {q},
                            !.subfoldersTotal = Cardinality(SubfoldersWhere(id))]
                   [] q = "files" ->
                        [req[p] EXCEPT !.pending = @ \ {q},
                            !.files = FileRows(Page(NewestFirst(FilesWhere(id)),
                                                    offset.skip, offset.take))]
                   [] OTHER ->
                        [req[p] EXCEPT !.pending = @ \ {q},
                            !.filesTotal = Cardinality(FilesWhere(id))]
        IN  req' = [req EXCEPT ![p] =
                IF r.pending = {}
                THEN Reply(p, 200,
                        [folder |-> [id |-> id, name |-> r.folder.name,
                                     path |-> r.folder.path],
                         subfolders |-> BuildPaginatedResponse(
                                r.subfolders, r.subfoldersTotal, opts),
                         files |-> BuildPaginatedResponse(
                                r.files, r.filesTotal, opts)])
                ELSE r]
    /\ UNCHANGED <<folders, files, users, objects, now, bucket>>

\* the clock advances
Tick ==
    /\ now < MaxClock
    /\ now' = now + 1
    /\ UNCHANGED <<folders, files, users, objects, req, bucket>>

\* the parts a request may carry
Parts == [filename : Filenames, mimetype : MimeTypes, size : Sizes]

PartLists(max) == UNION {[1..n -> Parts] : n \in 1..max}

\* a step of slot p on a file request of a user in U with parts in PL
FileStep(p, U, PL) ==
    \/ \E u \in U, folderId \in 0..MaxFolders, parts \in PL :
            UploadFindFolder(p, u, folderId, parts)
    \/ UploadFindUser(p)
    \/ UploadNextPart(p)
    \/ UploadPut(p)
    \/ UploadCreateRow(p)
    \/ UploadIncrement(p)
    \/ UploadFail(p)
    \/ \E u \in U, id \in FileIds : FileDeleteFind(p, u, id)
    \/ FileDeleteObject(p)
    \/ FileDeleteUpdate(p)
    \/ FileDeleteDecrement(p)
    \/ FileDeleteFail(p)

\* file requests, one at a time, while the clock runs
NextFilesSeq == FileStep(1, {"u1"}, PartLists(MaxParts)) \/ Tick

SpecFilesSeq == Init /\ [][NextFilesSeq]_vars

\* file requests of one user in two slots, interleaved at every await
NextFiles == (\E p \in Procs : FileStep(p, {"u1"}, PartLists(MaxParts))) \/ Tick

SpecFiles == Init /\ [][NextFiles]_vars

\* folder and file requests, one at a time
NextSeq ==
    \/ FolderStep(1, {"u1"}, {<<"a">>})
    \/ FileStep(1, {"u1"}, PartLists(MaxParts))
    \/ Tick

SpecSeq == Init /\ [][NextSeq]_vars

\* a step of slot p on an upload of a user in U with parts in PL
UploadStep(p, U, PL) ==
    \/ \E u \in U, folderId \in 0..MaxFolders, parts \in PL :
            UploadFindFolder(p, u, folderId, parts)
    \/ UploadFindUser(p)
    \/ UploadNextPart(p)
    \/ UploadPut(p)
    \/ UploadCreateRow(p)
    \/ UploadIncrement(p)
    \/ UploadFail(p)

\* a step of slot p on a file delete of a user in U
FileDeleteStep(p, U) ==
    \/ \E u \in U, id \in FileIds : FileDeleteFind(p, u, id)
    \/ FileDeleteObject(p)
    \/ FileDeleteUpdate(p)
    \/ FileDeleteDecrement(p)
    \/ FileDeleteFail(p)

\* a step of slot p on a download or a folder contents request of a user in U
ReadStep(p, U) ==
    \/ \E u \in U, id \in FileIds : DownloadFind(p, u, id)
    \/ DownloadObject(p)
    \/ DownloadFail(p)
    \/ \E u \in U, id \in FolderIds : ContentsFind(p, u, id, NoQuery)
    \/ ContentsQuery(p)

\* the one part the requests of the two-user specification carry
OnePart == {<<[filename |-> <<"f">>, mimetype |-> "image/png", size |-> 1]>>}

\* Requests of two users, one at a time: u1 creates the first folder and
\* uploads the first file, u2 sends every kind of request, each with an id.
NextTenants ==
    \/ folders = <<>> /\ CreateFindParent(1, "u1", <<"a">>, 0)
    \/ files = <<>> /\ \E parts \in OnePart : UploadFindFolder(1, "u1", 0, parts)
    \/ CreateStep(1, {"u2"}, {<<"a">>})
    \/ \E folderId \in FolderIds, parts \in OnePart :
            UploadFindFolder(1, "u2", folderId, parts)
    \/ UploadFindUser(1)
    \/ UploadNextPart(1)
    \/ UploadPut(1)
    \/ UploadCreateRow(1)
    \/ UploadIncrement(1)
    \/ UploadFail(1)
    \/ RenameStep(1, {"u2"}, {<<"a", "b">>})
    \/ DeleteFolderStep(1, {"u2"})
    \/ FileDeleteStep(1, {"u2"})
    \/ ReadStep(1, {"u2"})

SpecTenants == Init /\ [][NextTenants]_vars

\* File requests, one at a time, with an object store and a metadata store
\* that never fail during an upload; the calls of a file delete may fail.
NextDeleteDrift ==
    \/ \E folderId \in 0..MaxFolders, parts \in PartLists(MaxParts) :
            UploadFindFolder(1, "u1", folderId, parts)
    \/ UploadFindUser(1)
    \/ UploadNextPart(1)
    \/ UploadPut(1)
    \/ UploadCreateRow(1)
    \/ UploadIncrement(1)
    \/ FileDeleteStep(1, {"u1"})
    \/ Tick

SpecDeleteDrift == Init /\ [][NextDeleteDrift]_vars

\* Uploads of one user in two slots and file deletes in the first, interleaved
\* at every await, while the clock runs.
NextUploads ==
    \/ UploadStep(1, {"u1"}, OnePart)
    \/ FileDeleteStep(1, {"u1"})
    \/ UploadStep(2, {"u1"}, OnePart)
    \/ Tick

SpecUploads == Init /\ [][NextUploads]_vars

\* Uploads, file deletes and downloads, one request at a time, while the
\* clock runs: u1 uploads and deletes, both users download.
NextDownloads ==
    \/ \E parts \in OnePart : UploadFindFolder(1, "u1", 0, parts)
    \/ UploadFindUser(1)
    \/ UploadNextPart(1)
    \/ UploadPut(1)
    \/ UploadCreateRow(1)
    \/ UploadIncrement(1)
    \/ FileDeleteStep(1, {"u1"})
    \/ \E u \in Users, id \in FileIds : DownloadFind(1, u, id)
    \/ DownloadObject(1)
    \/ DownloadFail(1)
    \/ Tick

SpecDownloads == Init /\ [][NextDownloads]_vars

\* Folder creates and deletes and uploads into folders, of both users, one
\* request at a time.
NextUploadFolder ==
    \/ CreateStep(1, Users, {<<"a">>})
    \/ DeleteFolderStep(1, Users)
    \/ UploadStep(1, Users, OnePart)

SpecUploadFolder == Init /\ [][NextUploadFolder]_vars

\* the requests of one or two parts: an image first, then a part of any type
\* under another name
TwoParts ==
    {<<[filename |-> <<"f">>, mimetype |-> "image/png", size |-> s]>> : s \in Sizes}
    \cup {<<[filename |-> <<"f">>, mimetype |-> "image/png", size |-> s],
            [filename |-> <<"a">>, mimetype |-> t, size |-> z]>> :
                s \in Sizes, t \in MimeTypes, z \in Sizes}

\* Uploads of one or two parts, one request at a time, while the clock runs.
NextMultipart ==
    \/ \E parts \in TwoParts : UploadFindFolder(1, "u1", 0, parts)
    \/ UploadFindUser(1)
    \/ UploadNextPart(1)
    \/ UploadPut(1)
    \/ UploadCreateRow(1)
    \/ UploadIncrement(1)
    \/ UploadFail(1)
    \/ Tick

SpecMultipart == Init /\ [][NextMultipart]_vars

\* the part of the request in slot p of the two concurrent uploads
RacePart(p) ==
    <<[filename |-> IF p = 1 THEN <<"f">> ELSE <<"a">>,
       mimetype |-> "image/png", size |-> 2]>>

\* Two uploads of one user, interleaved at every await, with stores that do
\* not fail.
NextQuotaRace ==
    \/ \E p \in Procs :
        \/ UploadFindFolder(p, "u1", 0, RacePart(p))
        \/ UploadFindUser(p)
        \/ UploadNextPart(p)
        \/ UploadPut(p)
        \/ UploadCreateRow(p)
        \/ UploadIncrement(p)
    \/ Tick

SpecQuotaRace == Init /\ [][NextQuotaRace]_vars

\* the queries the listing routes let through to their handlers: none, or a
\* page and a limit within the schema
PageQueries == {NoQuery, [page |-> <<"2">>, limit |-> <<"1">>]}

\* a step of slot p on a folder list or a folder contents request of user u
ListingStep(p, u) ==
    \/ \E parentId \in 0..MaxFolders, query \in PageQueries :
            ListStart(p, u, parentId, query)
    \/ ListQuery(p)
    \/ \E id \in FolderIds, query \in PageQueries : ContentsFind(p, u, id, query)
    \/ ContentsQuery(p)

\* Folder creates, uploads into folders, file deletes and listings of one
\* user, one request at a time.
NextListingSeq ==
    \/ CreateStep(1, {"u1"}, {<<"a">>})
    \/ \E folderId \in FolderIds, parts \in OnePart :
            UploadFindFolder(1, "u1", folderId, parts)
    \/ UploadFindUser(1)
    \/ UploadNextPart(1)
    \/ UploadPut(1)
    \/ UploadCreateRow(1)
    \/ UploadIncrement(1)
    \/ FileDeleteStep(1, {"u1"})
    \/ ListingStep(1, "u1")

SpecListingSeq == Init /\ [][NextListingSeq]_vars

\* Folder creates and deletes in one slot, listings of the same user in the
\* other, interleaved at every await.
NextListing ==
    \/ CreateStep(1, {"u1"}, {<<"a">>})
    \/ DeleteFolderStep(1, {"u1"})
    \/ ListingStep(2, "u1")

SpecListing == Init /\ [][NextListing]_vars

\* the characters of the query values
TextChars == {"0", "1", "9", "-", "x", "a", " "}

\* the query values: absent, or a text of up to MaxTextLen characters
Texts == {Undefined} \cup UNION {[1..n -> TextChars] : n \in 0..MaxTextLen}

\* the values the other field has while one field takes every text
FewTexts == {Undefined, <<"2">>, <<"9", "9", "9">>}

Queries ==
    [page : Texts, limit : FewTexts] \cup [page : FewTexts, limit : Texts]

\* parsePaginationParams and getPrismaOffsetLimit are called with a query,
\* once
CallPagination(p, query) ==
    /\ req[p] = Idle
    /\ req' = [req EXCEPT ![p] =
            [pc |-> "done", kind |-> "pagination", body |-> PaginationCall(query)]]
    /\ UNCHANGED <<folders, files, users, objects, now, bucket>>

NextPagination == \E query \in Queries : CallPagination(1, query)

SpecPagination == Init /\ [][NextPagination]_vars

\* an ordered result set of total rows: the rows are their indexes
Items(total) == [i \in 1..total |-> i - 1]

\* the page of an ordered result set of total rows, wrapped
PageResponse(total, options) ==
    LET offset == GetPrismaOffsetLimit(options)
    IN  BuildPaginatedResponse(Page(Items(total), offset.skip, offset.take),
                               total, options)

\* the normalised options of the envelope calls
EnvelopeOptions ==
    [page : 1..(MaxTotal + 1), limit : 1..(MaxTotal + 1), maxLimit : {DefaultMaxLimit}]

\* a page of a result set of total rows is read and wrapped
CallEnvelope(p, total, options) ==
    /\ req[p] = Idle
    /\ req' = [req EXCEPT ![p] =
            [pc |-> "done", kind |-> "envelope", total |-> total,
             first |-> options.page, visited |-> PageResponse(total, options).data,
             response |-> PageResponse(total, options)]]
    /\ UNCHANGED <<folders, files, users, objects, now, bucket>>

\* the client follows hasNext: the next page with the same limit
FollowNext(p) ==
    /\ req[p].kind = "envelope"
    /\ req[p].response.pagination.hasNext
    /\ LET options == [page |-> req[p].response.pagination.page + 1,
                       limit |-> req[p].response.pagination.limit,
                       maxLimit |-> DefaultMaxLimit]
           response == PageResponse(req[p].total, options)
       IN  req' = [req EXCEPT ![p].response = response,
                              ![p].visited = @ \o response.data]
    /\ UNCHANGED <<folders, files, users, objects, now, bucket>>

NextEnvelope ==
    \/ \E total \in 0..MaxTotal, options \in EnvelopeOptions :
            CallEnvelope(1, total, options)
    \/ FollowNext(1)

SpecEnvelope == Init /\ [][NextEnvelope]_vars

\* ------------------------------------------- StorageService.initialize
\* the servers start: no request has been served, the bucket may be missing
InitStart ==
    /\ folders = <<>>
    /\ files = <<>>
    /\ users = [u \in Users |-> [quota |-> Quota, usedSpace |-> 0]]
    /\ objects = <<>>
    /\ now = 0
    /\ req = [p \in Procs |-> [pc |-> "idle", kind |-> "none", calls |-> 0]]
    /\ bucket \in BOOLEAN

\* caller p calls initialize()
InitializeCall(p) ==
    /\ req[p].pc \in {"idle", "done"}
    /\ req[p].calls < MaxCalls
    /\ req' = [req EXCEPT ![p] =
            [pc |-> "i_head", kind |-> "initialize", calls |-> req[p].calls + 1]]
    /\ UNCHANGED <<folders, files, users, objects, now, bucket>>

\* HeadBucket: the bucket exists and initialize() returns, or the command
\* throws NotFound and the catch goes on to create the bucket
InitializeHead(p) ==
    /\ req[p].pc = "i_head"
    /\ req' = [req EXCEPT ![p] =
            IF bucket
            THEN [pc |-> "done", kind |-> "initialize", calls |-> req[p].calls,
                  status |-> "resolved"]
            ELSE [req[p] EXCEPT !.pc = "i_create"]]
    /\ UNCHANGED <<folders, files, users, objects, now, bucket>>

\* the outcomes of CreateBucket: a missing bucket is created; for a bucket
\* the caller already owns the store answers BucketAlreadyOwnedByYou (409),
\* or 200 in the one region that accepts the repeated create
CreateBucketOutcomes == IF bucket THEN {"BucketAlreadyOwnedByYou", "ok"} ELSE {"ok"}

\* CreateBucket inside the catch block: its error is not caught, and
\* initialize() rejects with it
InitializeCreate(p) ==
    /\ req[p].pc = "i_create"
    /\ \E outcome \in CreateBucketOutcomes :
        req' = [req EXCEPT ![p] =
            [pc |-> "done", kind |-> "initialize", calls |-> req[p].calls,
             status |-> IF outcome = "ok" THEN "resolved" ELSE "rejected"]]
    /\ bucket' = TRUE
    /\ UNCHANGED <<folders, files, users, objects, now>>

\* initialize() of two starting servers, called again after it has returned,
\* with a store that answers every command
NextInitialize ==
    \E p \in Procs :
        \/ InitializeCall(p)
        \/ InitializeHead(p)
        \/ InitializeCreate(p)

SpecInitialize == InitStart /\ [][NextInitialize]_vars

\* Folder creates and deletes, uploads into folders and folder contents
\* requests of both users, one request at a time.
NextReferences ==
    \/ CreateStep(1, Users, {<<"a">>})
    \/ DeleteFolderStep(1, Users)
    \/ UploadStep(1, Users, OnePart)
    \/ \E u \in Users, id \in FolderIds : ContentsFind(1, u, id, NoQuery)
    \/ ContentsQuery(1)

SpecReferences == Init /\ [][NextReferences]_vars

\* Uploads and file deletes of both users, one request at a time, with an
\* object store and a metadata store that answer every call, while the clock
\* runs.
NextAccounting ==
    \/ \E u \in Users, parts \in PartLists(MaxParts) : UploadFindFolder(1, u, 0, parts)
    \/ UploadFindUser(1)
    \/ UploadNextPart(1)
    \/ UploadPut(1)
    \/ UploadCreateRow(1)
    \/ UploadIncrement(1)
    \/ \E u \in Users, id \in FileIds : FileDeleteFind(1, u, id)
    \/ FileDeleteObject(1)
    \/ FileDeleteUpdate(1)
    \/ FileDeleteDecrement(1)
    \/ Tick

SpecAccounting == Init /\ [][NextAccounting]_vars

\* Uploads in one slot and file deletes in both, of one user, interleaved at
\* every await, with stores that answer every call.
NextDeleteRace ==
    \/ \E parts \in OnePart : UploadFindFolder(1, "u1", 0, parts)
    \/ UploadFindUser(1)
    \/ UploadNextPart(1)
    \/ UploadPut(1)
    \/ UploadCreateRow(1)
    \/ UploadIncrement(1)
    \/ \E p \in Procs :
        \/ \E id \in FileIds : FileDeleteFind(p, "u1", id)
        \/ FileDeleteObject(p)
        \/ FileDeleteUpdate(p)
        \/ FileDeleteDecrement(p)
    \/ Tick

SpecDeleteRace == Init /\ [][NextDeleteRace]_vars

\* Creates of root folders and folder deletes in one slot, uploads into
\* folders in the other, of one user, interleaved at every await.
NextFolderRace ==
    \/ CreateFindParent(1, "u1", <<"a">>, 0)
    \/ CreateFindExisting(1)
    \/ CreateInsert(1)
    \/ DeleteFolderStep(1, {"u1"})
    \/ \E folderId \in FolderIds, parts \in OnePart :
            UploadFindFolder(2, "u1", folderId, parts)
    \/ UploadFindUser(2)
    \/ UploadNextPart(2)
    \/ UploadPut(2)
    \/ UploadCreateRow(2)
    \/ UploadIncrement(2)

SpecFolderRace == Init /\ [][NextFolderRace]_vars

\* Creates of one user in two slots, interleaved at every await.
NextCreateRace == \E p \in Procs : CreateStep(p, {"u1"}, {<<"a">>, <<"a", "b">>})

SpecCreateRace == Init /\ [][NextCreateRace]_vars

\* ------------------------------------------------------------------ claims
\* the path a folder row must have: the parent's path, "/" and the name
ExpectedPath(i) ==
    IF folders[i].parentId = 0
    THEN <<"/">> \o folders[i].name
    ELSE folders[folders[i].parentId].path \o <<"/">> \o folders[i].name

PathInvariant ==
    \A i \in DOMAIN folders : ~folders[i].isDeleted => folders[i].path = ExpectedPath(i)

\* C1: after any sequence of folder create, rename and delete requests served
\* one at a time with slash-free names, every non-deleted folder's path is its
\* parent's path, "/" and its name ("/" and its name at the root).
C1_PathInvariantSequential == PathInvariant

\* C2: in every state of any interleaving of create and rename requests of one
\* user, every non-deleted folder's path is its parent's path, "/" and its
\* name.
C2_PathInvariantConcurrent == PathInvariant

\* C3: the rewrites of a rename become visible together: the committed path or
\* name of a Folder row changes only in the step that commits a rename, and
\* that step gives the target its new name and path and every rewritten
\* descendant its new path.
C3_RenameVisibleTogether ==
    [][\A i \in DOMAIN folders :
          (folders'[i].path # folders[i].path \/ folders'[i].name # folders[i].name)
          => \E p \in Procs :
                /\ req[p].pc = "r_desc" /\ req'[p].pc = "done" /\ req'[p].status = 200
                /\ req[p].id \in DOMAIN req[p].tx
                /\ folders'[req[p].id].path = req[p].newPath
                /\ folders'[req[p].id].name = req[p].name
                /\ \A j \in DOMAIN req[p].tx : folders'[j].path = req[p].tx[j].path]_vars

\* a rename has rewritten its target and a descendant and has not committed:
\* the committed rows still carry the old paths
C3_Witness ==
    \E p \in Procs :
        /\ req[p].pc = "r_desc"
        /\ Cardinality(DOMAIN req[p].tx) >= 2
        /\ req[p].newPath # req[p].folder.path
        /\ folders[req[p].id].path = req[p].folder.path

\* C4: a rename whose transaction fails replies 500 and leaves every Folder
\* row as it was: a step of a rename's transaction either commits (200) or
\* leaves all rows unchanged, and it ends the request only with 200 or 500;
\* until then the target's committed row is the one the request read.
C4_RenameAllOrNothing ==
    [][\A p \in Procs : req[p].pc \in TxPcs =>
          /\ folders[req[p].id].name = req[p].folder.name
          /\ folders[req[p].id].path = req[p].folder.path
          /\ req'[p].pc = "done" => req'[p].status \in {200, 500}
          /\ (req'[p].pc # "done" \/ req'[p].status # 200) => folders' = folders]_vars

\* a rename of a folder with a descendant has failed after its first update
C4_Witness ==
    /\ req[1].pc = "done" /\ req[1].kind = "renameFolder" /\ req[1].status = 500
    /\ \E i \in DOMAIN folders : folders[i].parentId = req[1].id
    /\ \E i \in DOMAIN folders : ~folders[i].isDeleted /\ folders[i].parentId # 0

\* C5: under any interleaving of upload and file delete requests and any
\* store failure, every user's usedSpace is at least 0.
C5_UsedSpaceNonNegative == \A u \in Users : users[u].usedSpace >= 0

\* C6: a single-file upload of an allowed type, served alone, passes the quota
\* check when usedSpace + size = quota and is rejected with 413 when
\* usedSpace + size = quota + 1, size being the file's byte length.
C6_QuotaBoundary ==
    [][\A p \in Procs :
          (req[p].pc = "u_part" /\ req[p].parts # <<>> /\ req'[p] # req[p]) =>
          LET file == Head(req[p].parts)
              user == users[req[p].userId]
          IN  IsAllowedMimeType(ResolveMimeType(file)) =>
                /\ user.usedSpace + file.size = user.quota => req'[p].pc = "u_put"
                /\ user.usedSpace + file.size = user.quota + 1 =>
                        (req'[p].pc = "done" /\ req'[p].status = 413)]_vars

\* C7: a single-file upload rejected with 413 has no side effect: no step of
\* an upload up to the quota check of its first part changes a User row, a
\* File row or an object, and at the rejection usedSpace is still the value
\* the request read.
C7_QuotaRejectionNoEffect ==
    [][\A p \in Procs :
          /\ (req'[p].kind = "upload" /\ req'[p].pc \in {"u_user", "u_part"}
                /\ req'[p].uploadedFiles = <<>>)
             => (users' = users /\ files' = files /\ objects' = objects)
          /\ (req[p].pc = "u_part" /\ req'[p].pc = "done" /\ req'[p].status = 413
                /\ Len(req[p].parts) + Len(req[p].uploadedFiles) = 1)
             => /\ users' = users /\ files' = files /\ objects' = objects
                /\ users[req[p].userId].usedSpace = req[p].user.usedSpace
                /\ req'[p].body.used = users'[req[p].userId].usedSpace]_vars

\* a single-file upload has been rejected with 413 while the user has a file
C7_Witness ==
    /\ req[1].pc = "done" /\ req[1].kind = "upload" /\ req[1].status = 413
    /\ users[req[1].userId].usedSpace > 0
    /\ \E f \in DOMAIN files : files[f].userId = req[1].userId

RECURSIVE SumSizes(_)
SumSizes(uploaded) ==
    IF uploaded = <<>> THEN 0 ELSE Head(uploaded).size + SumSizes(Tail(uploaded))

\* C8: with uploads served one after the other, usedSpace is the value the
\* request read plus the sizes of the files it has stored so far, each size
\* being the size of the File row and of the object written for it.
C8_QuotaMonotonicity ==
    \A p \in Procs :
        /\ (req[p].kind = "upload" /\ req[p].pc = "u_part") =>
            /\ users[req[p].userId].usedSpace
                    = req[p].user.usedSpace + SumSizes(req[p].uploadedFiles)
            /\ \A i \in DOMAIN req[p].uploadedFiles :
                    files[req[p].uploadedFiles[i].id].size = req[p].uploadedFiles[i].size
        /\ (req[p].kind = "upload" /\ req[p].pc = "u_increment") =>
            /\ files[req[p].dbFile].size = req[p].actualSize
            /\ objects[req[p].s3Key].size = req[p].actualSize
        /\ (req[p].kind = "upload" /\ req[p].pc = "done" /\ req[p].status = 201) =>
            \A i \in DOMAIN req[p].body : files[req[p].body[i].id].size = req[p].body[i].size

\* the second successful upload of a user is answered: two files, 201
C8_Witness ==
    /\ req[1].pc = "done" /\ req[1].kind = "upload" /\ req[1].status = 201
    /\ req[1].body # <<>>
    /\ Cardinality({f \in DOMAIN files : files[f].userId = req[1].userId}) >= 2
    /\ users[req[1].userId].usedSpace >= 2

\* the non-deleted direct children of a folder: folders and files
LiveChildren(id) ==
    {c \in DOMAIN folders : folders[c].parentId = id /\ ~folders[c].isDeleted}

LiveFiles(id) ==
    {f \in DOMAIN files : files[f].folderId = id /\ ~files[f].isDeleted}

\* C9: a delete of a folder with a non-deleted direct child (file or folder)
\* replies 400 and leaves the folder as it is; a delete of a folder whose
\* children have all been soft-deleted goes on to mark it deleted.
C9_FolderEmptinessGate ==
    [][\A p \in Procs :
          (Free(p) /\ req'[p] # req[p] /\ req'[p].kind = "deleteFolder"
                /\ FindLiveFolder(req'[p].id, req'[p].userId) # NoFolder) =>
          IF LiveChildren(req'[p].id) # {} \/ LiveFiles(req'[p].id) # {}
          THEN req'[p].pc = "done" /\ req'[p].status = 400 /\ folders' = folders
          ELSE req'[p].pc = "d_update"]_vars

\* C10: with requests served one at a time, no non-deleted Folder has a
\* soft-deleted parent and no non-deleted File is in a soft-deleted folder.
C10_NoLiveChildOfDeletedFolder ==
    /\ \A c \in DOMAIN folders :
          (~folders[c].isDeleted /\ folders[c].parentId # 0)
              => ~folders[folders[c].parentId].isDeleted
    /\ \A f \in DOMAIN files :
          (~files[f].isDeleted /\ files[f].folderId # 0)
              => ~folders[files[f].folderId].isDeleted

\* a step leaves the rows, the objects and the counter of every user other
\* than u as they were
OthersUnchanged(u) ==
    /\ \A i \in DOMAIN folders : folders[i].userId # u => folders'[i] = folders[i]
    /\ \A i \in DOMAIN files : files[i].userId # u => files'[i] = files[i]
    /\ \A k \in DOMAIN objects : objects[k].userId # u =>
            (k \in DOMAIN objects' /\ objects'[k] = objects[k])
    /\ \A v \in Users \ {u} : users'[v] = users[v]

\* the id of the request in slot p is a row of another user: a File row for a
\* download or a file delete, a Folder row for every other kind
AddressesForeignRow(r) ==
    IF r.kind \in {"download", "deleteFile"}
    THEN r.id \in DOMAIN files /\ files[r.id].userId # r.userId
    ELSE r.id \in DOMAIN folders /\ folders[r.id].userId # r.userId

\* C11: a request of user A that addresses a File or Folder of another user B
\* by id (download, file delete, contents, rename, folder delete, create with
\* it as parentId, upload with it as folderId) is answered 404 with an empty
\* body, and no step of a request of A changes a row, an object or the
\* usedSpace of B.
C11_OwnershipIsolation ==
    [][\A p \in Procs : req'[p] # req[p] =>
          /\ OthersUnchanged(req'[p].userId)
          /\ (Free(p) /\ AddressesForeignRow(req'[p])) =>
                /\ req'[p].pc = "done"
                /\ req'[p].status = 404
                /\ req'[p].body = <<>>
                /\ UNCHANGED <<folders, files, users, objects>>]_vars

\* u2 has asked to delete a non-deleted file of u1 and has been answered 404
C11_Witness ==
    /\ req[1].pc = "done" /\ req[1].kind = "deleteFile" /\ req[1].status = 404
    /\ req[1].id \in DOMAIN files
    /\ files[req[1].id].userId # req[1].userId
    /\ ~files[req[1].id].isDeleted
    /\ files[req[1].id].s3Key \in DOMAIN objects

\* C12: when the object-store delete of a file delete fails, the request is
\* answered with an error and the File row is still non-deleted with no
\* deletedAt and usedSpace is what it was, so the same delete finds the row
\* again.
C12_DeleteStoreFailureKeepsRow ==
    [][\A p \in Procs :
          (req[p].pc = "fd_object" /\ req'[p].pc = "done") =>
            /\ req'[p].status = 500
            /\ files' = files /\ users' = users
            /\ ~files'[req[p].id].isDeleted
            /\ files'[req[p].id].deletedAt = -1
            /\ files'[req[p].id] = req[p].file]_vars

\* a file delete failed in the object store: 500, the row is live, the object
\* is there and the space is still counted
C12_Witness ==
    /\ req[1].pc = "done" /\ req[1].kind = "deleteFile" /\ req[1].status = 500
    /\ req[1].id \in DOMAIN files
    /\ ~files[req[1].id].isDeleted
    /\ files[req[1].id].s3Key \in DOMAIN objects
    /\ users[req[1].userId].usedSpace >= files[req[1].id].size

\* C13: a File row is inserted only by the step of an upload that follows its
\* acknowledged object-store write, under the key of that write; the write has
\* put the object under the key when the handler moves on; an upload whose
\* object-store write fails creates no row and increments no usedSpace.
C13_NoRowBeforeObject ==
    [][/\ files' # files /\ Len(files') > Len(files) =>
            \E p \in Procs :
                /\ req[p].pc = "u_create" /\ req'[p].pc = "u_increment"
                /\ files' = Append(files, files'[Len(files')])
                /\ files'[Len(files')].s3Key = req[p].s3Key
       /\ \A p \in Procs : (req'[p].pc = "u_create" /\ req[p].pc # "u_create") =>
                /\ req[p].pc = "u_put"
                /\ req[p].s3Key \in DOMAIN objects'
                /\ objects'[req[p].s3Key].size = req[p].actualSize
       /\ \A p \in Procs : (req[p].pc = "u_put" /\ req'[p] # req[p]) =>
                /\ files' = files /\ users' = users
                /\ req'[p].pc = "done" =>
                        (req'[p].status = 500 /\ objects' = objects)]_vars

\* an upload failed in the object store: 500, no row and no usedSpace
C13_Witness ==
    /\ req[1].pc = "done" /\ req[1].kind = "upload" /\ req[1].status = 500
    /\ files = <<>> /\ objects = <<>>
    /\ \A u \in Users : users[u].usedSpace = 0

\* C14: in every state, also inside a file delete and after a metadata-store
\* failure in the middle of one, the s3Key of every non-deleted File row is
\* the key of an object in the store.
C14_LiveRowHasObject ==
    \A f \in DOMAIN files : ~files[f].isDeleted => files[f].s3Key \in DOMAIN objects

\* C14, as the code has it: a File row is inserted with its object in the
\* store, and the object of a non-deleted row leaves the store only in the
\* object-store step of a file delete of that row; from that step until the
\* row is marked deleted, and for good when the marking fails, the row is
\* non-deleted without an object.
C14_LiveRowLosesObjectOnlyByDelete ==
    [][/\ \A f \in DOMAIN files :
            (~files[f].isDeleted /\ files[f].s3Key \in DOMAIN objects
                /\ files[f].s3Key \notin DOMAIN objects') =>
                \E p \in Procs : /\ req[p].pc = "fd_object" /\ req[p].id = f
                                 /\ req'[p].pc = "fd_update"
       /\ Len(files') > Len(files) =>
            files'[Len(files')].s3Key \in DOMAIN objects']_vars

\* a file delete has removed the object and has not marked the row: the row
\* is non-deleted and its key has no object
C14_Witness ==
    /\ req[1].pc = "fd_update"
    /\ ~files[req[1].id].isDeleted
    /\ files[req[1].id].s3Key \notin DOMAIN objects
    /\ \E f \in DOMAIN files : ~files[f].isDeleted /\ files[f].s3Key \in DOMAIN objects

\* C15: a file delete answered 204 has removed the object under the row's
\* key, set isDeleted and deletedAt on the row and lowered the owner's
\* usedSpace by the row's size, step by step, and has changed nothing else.
C15_DeleteEffect ==
    [][\A p \in Procs : (req[p].kind = "deleteFile" /\ req'[p] # req[p]) =>
          LET id == req[p].id
              file == req[p].file
          IN  /\ folders' = folders
              /\ req[p].pc = "fd_object" /\ req'[p].pc # "done" =>
                    /\ file.s3Key \notin DOMAIN objects'
                    /\ \A k \in DOMAIN objects \ {file.s3Key} :
                            k \in DOMAIN objects' /\ objects'[k] = objects[k]
                    /\ files' = files /\ users' = users
              /\ req[p].pc = "fd_update" /\ req'[p].pc # "done" =>
                    /\ files' = [files EXCEPT ![id] =
                            [file EXCEPT !.isDeleted = TRUE, !.deletedAt = now]]
                    /\ objects' = objects /\ users' = users
              /\ req[p].pc = "fd_decrement" /\ req'[p].pc = "done"
                    /\ req'[p].status = 204 =>
                    /\ users' = [users EXCEPT ![req[p].userId].usedSpace =
                                    @ - file.size]
                    /\ files' = files /\ objects' = objects
                    /\ files[id].isDeleted /\ files[id].deletedAt >= 0
                    /\ files[id].size = file.size
                    /\ file.s3Key \notin DOMAIN objects
              /\ req'[p].pc = "done" /\ req'[p].status = 204 =>
                    req[p].pc = "fd_decrement"]_vars

\* a delete of a 2-byte file has been answered 204 and another file is left
C15_Witness ==
    /\ req[1].pc = "done" /\ req[1].kind = "deleteFile" /\ req[1].status = 204
    /\ files[req[1].id].isDeleted /\ files[req[1].id].size = 2
    /\ \E f \in DOMAIN files : ~files[f].isDeleted
    /\ users[req[1].userId].usedSpace = 1

\* the sizes of the non-deleted File rows of user u
RECURSIVE SumLive(_, _)
SumLive(u, n) ==
    IF n = 0 THEN 0
    ELSE SumLive(u, n - 1)
            + (IF files[n].userId = u /\ ~files[n].isDeleted THEN files[n].size ELSE 0)

\* C16: when the usedSpace decrement of a file delete fails, the row stays
\* soft-deleted and the object stays removed; with no other failure, usedSpace
\* is never less than the sizes of the user's non-deleted files (outside the
\* step of an upload between its row and its increment).
C16_DeleteDriftOvercounts ==
    [][/\ \A p \in Procs :
            (req[p].pc = "fd_decrement" /\ req'[p].pc = "done" /\ req'[p].status # 204) =>
                /\ req'[p].status = 500
                /\ files' = files /\ objects' = objects /\ users' = users
                /\ files'[req[p].id].isDeleted
                /\ req[p].file.s3Key \notin DOMAIN objects'
       /\ (\A p \in Procs : req'[p].pc # "u_increment") =>
            \A u \in Users : users'[u].usedSpace >= SumLive(u, Len(files'))]_vars

\* a delete failed at the decrement: the row is deleted, the object is gone
\* and usedSpace still counts the file
C16_Witness ==
    /\ req[1].pc = "done" /\ req[1].kind = "deleteFile" /\ req[1].status = 500
    /\ files[req[1].id].isDeleted
    /\ files[req[1].id].s3Key \notin DOMAIN objects
    /\ users[req[1].userId].usedSpace
            >= SumLive(req[1].userId, Len(files)) + files[req[1].id].size

\* C17: a create with a parentId that is not a non-deleted folder of the
\* caller (missing, of another user, or soft-deleted) is answered 404 and
\* persists no row.
C17_CreateParentCheck ==
    [][\A p \in Procs :
          (Free(p) /\ req'[p] # req[p] /\ req'[p].kind = "createFolder"
                /\ req'[p].id # 0
                /\ FindLiveFolder(req'[p].id, req'[p].userId) = NoFolder) =>
            /\ req'[p].pc = "done" /\ req'[p].status = 404
            /\ folders' = folders]_vars

\* the Folder rows of a user with a path, deleted or not
RowsWithPath(userId, path) ==
    {i \in DOMAIN folders : folders[i].userId = userId /\ folders[i].path = path}

\* C18: a create whose path is the path of a Folder row of the caller,
\* deleted or not, is answered 409 and persists nothing; a path held only by
\* rows of other users is no conflict, and the create goes on to its insert.
C18_CreateConflict ==
    [][\A p \in Procs : (req[p].pc = "c_existing" /\ req'[p] # req[p]) =>
          IF RowsWithPath(req[p].userId, req[p].path) # {}
          THEN req'[p].pc = "done" /\ req'[p].status = 409 /\ folders' = folders
          ELSE req'[p].pc = "c_create" /\ folders' = folders]_vars

\* a create has been answered 409 while the only folder of the caller is
\* soft-deleted
C18_Witness ==
    /\ req[1].pc = "done" /\ req[1].kind = "createFolder" /\ req[1].status = 409
    /\ \E i \in DOMAIN folders : folders[i].userId = req[1].userId
    /\ \A i \in DOMAIN folders : folders[i].userId = req[1].userId => folders[i].isDeleted

\* C19: in every state of any interleaving of create, rename and delete
\* requests, no two Folder rows of one user, deleted or not, have one path.
C19_PathUnique ==
    \A i, j \in DOMAIN folders :
        (i # j /\ folders[i].userId = folders[j].userId)
            => folders[i].path # folders[j].path

\* a create that passed its lookup has been stopped by the index: a rename
\* took the path in between
C19_Witness ==
    /\ req[1].pc = "done" /\ req[1].kind = "createFolder" /\ req[1].status = 500
    /\ Len(folders) >= 1
    /\ \E i \in DOMAIN folders : folders[i].name = <<"a", "b">>

\* C20: a rename whose new path is the path of another Folder row of the
\* caller is answered 409 and changes no folder; otherwise it is not
\* answered 409.
C20_RenameConflict ==
    [][\A p \in Procs : (req[p].pc = "r_existing" /\ req'[p] # req[p]) =>
          IF RowsWithPath(req[p].userId, req[p].newPath) \ {req[p].id} # {}
          THEN req'[p].pc = "done" /\ req'[p].status = 409 /\ folders' = folders
          ELSE req'[p].pc = "r_update" /\ folders' = folders]_vars

\* a rename has been answered 409: the caller has two non-deleted folders
\* under one parent
C20_Witness ==
    /\ req[1].pc = "done" /\ req[1].kind = "renameFolder" /\ req[1].status = 409
    /\ \E i, j \in DOMAIN folders :
            /\ i # j /\ i = req[1].id
            /\ folders[i].userId = req[1].userId /\ folders[j].userId = req[1].userId
            /\ folders[i].parentId = folders[j].parentId
            /\ ~folders[i].isDeleted /\ ~folders[j].isDeleted

\* C21: after file F is deleted and the same user uploads the same filename
\* and bytes again, the key of the new upload and of its File row differs
\* from F's, a download by F's id is answered 404, and a download answered
\* 200 streams the object under the key of its own row.
C21_DeleteThenReupload ==
    [][\A p \in Procs :
          /\ (req[p].pc = "u_part" /\ req'[p].pc = "u_put") =>
                \A f \in DOMAIN files :
                    (files[f].isDeleted /\ files[f].userId = req[p].userId
                        /\ files[f].filename = req'[p].filename) =>
                        req'[p].s3Key # files[f].s3Key
          /\ Len(files') > Len(files) =>
                \A f \in DOMAIN files :
                    files[f].isDeleted => files'[Len(files')].s3Key # files[f].s3Key
          /\ (Free(p) /\ req'[p] # req[p] /\ req'[p].kind = "download"
                /\ req'[p].id \in DOMAIN files /\ files[req'[p].id].isDeleted) =>
                (req'[p].pc = "done" /\ req'[p].status = 404)
          /\ (req[p].pc = "dl_object" /\ req'[p].pc = "done"
                /\ req'[p].status = 200) =>
                /\ files[req[p].id].s3Key \in DOMAIN objects
                /\ req'[p].body.stream = objects[files[req[p].id].s3Key]]_vars

\* C22: an upload part that reaches the object-store write uses a key that
\* no File row refers to and that no other upload in flight has generated,
\* so no write replaces the object of another row.
C22_KeysDoNotCollide ==
    [][\A p \in Procs : (req[p].pc = "u_put" /\ req'[p].pc = "u_create") =>
          /\ \A f \in DOMAIN files : files[f].s3Key # req[p].s3Key
          /\ \A q \in Procs \ {p} :
                req[q].pc \in {"u_put", "u_create", "u_increment"} =>
                    req[q].s3Key # req[p].s3Key]_vars

\* C23: an upload whose folderId is not a non-deleted folder of the caller
\* is answered 404 in its first step, before the user row or a part is read,
\* and changes no object, no File row and no usedSpace.
C23_UploadFolderCheck ==
    [][\A p \in Procs :
          (Free(p) /\ req'[p] # req[p] /\ req'[p].kind = "upload"
                /\ req'[p].id # 0
                /\ FindLiveFolder(req'[p].id, req'[p].userId) = NoFolder) =>
            /\ req'[p].pc = "done" /\ req'[p].status = 404
            /\ UNCHANGED <<folders, files, users, objects>>]_vars

\* an upload into the caller's own soft-deleted folder has been answered 404
C23_Witness ==
    /\ req[1].pc = "done" /\ req[1].kind = "upload" /\ req[1].status = 404
    /\ req[1].id \in DOMAIN folders
    /\ folders[req[1].id].userId = req[1].userId
    /\ folders[req[1].id].isDeleted

\* the states of an upload after its user row has been read
UploadLoopPcs == {"u_part", "u_put", "u_create", "u_increment"}

\* C24: the user row is read once per upload request and the copy is not
\* changed by the files the request stores; every part is checked against
\* that copy, so a part of an allowed type with snapshot + size <= quota goes
\* on to the object store whatever the earlier parts have added.
C24_QuotaCheckAgainstSnapshot ==
    [][\A p \in Procs : req'[p] # req[p] =>
          /\ (req[p].pc = "u_user" /\ req'[p].pc # "done") =>
                req'[p].user = users[req[p].userId]
          /\ (req[p].pc \in UploadLoopPcs /\ req'[p].pc # "done") =>
                req'[p].user = req[p].user
          /\ (req[p].pc = "u_part" /\ req[p].parts # <<>>) =>
                LET file == Head(req[p].parts)
                    user == req[p].user
                IN  (/\ user.usedSpace + file.size <= user.quota
                     /\ IsAllowedMimeType(ResolveMimeType(file))) =>
                        /\ req'[p].pc = "u_put"
                        /\ req'[p].actualSize = file.size]_vars

\* a request of two parts has been answered 201 with both files, and the
\* two together have taken usedSpace above the quota
C24_Witness ==
    /\ req[1].pc = "done" /\ req[1].kind = "upload" /\ req[1].status = 201
    /\ Len(req[1].body) = 2
    /\ users[req[1].userId].usedSpace > users[req[1].userId].quota
    /\ \A k \in 1..2 : req[1].body[k].size <= users[req[1].userId].quota

\* C25: the usedSpace update of an upload adds the size of its file to the
\* value the counter has at that moment, so with two uploads of one user in
\* flight no increment is lost: between increments usedSpace is the sum of
\* the sizes of the user's rows.  (The witness is the documented race.)
C25_IncrementsNotLost ==
    [][/\ \A p \in Procs : (req[p].pc = "u_increment" /\ req'[p] # req[p]) =>
            /\ users'[req[p].userId].usedSpace
                    = users[req[p].userId].usedSpace + req[p].actualSize
            /\ \A v \in Users \ {req[p].userId} : users'[v] = users[v]
       /\ (\A p \in Procs : req'[p].pc # "u_increment") =>
            \A u \in Users : users'[u].usedSpace = SumLive(u, Len(files'))]_vars

\* two uploads have passed the check against one stale usedSpace, each file
\* fits by itself, both have stored their file and incremented, and usedSpace
\* is the old value plus both sizes, above the quota
C25_Witness ==
    /\ \A p \in Procs :
            /\ req[p].pc = "u_part" /\ req[p].parts = <<>>
            /\ Len(req[p].uploadedFiles) = 1
            /\ req[p].user.usedSpace = 0
            /\ req[p].user.usedSpace + req[p].uploadedFiles[1].size
                    <= req[p].user.quota
    /\ users["u1"].usedSpace
            = req[1].uploadedFiles[1].size + req[2].uploadedFiles[1].size
    /\ users["u1"].usedSpace > users["u1"].quota

\* C26: an upload that ends with an error at one of its parts changes
\* nothing in its last step and processes no further part: every file it
\* stored before is still a non-deleted File row with its object, and
\* usedSpace is the snapshot plus the sizes of those files.
C26_AtLeastThePrefix ==
    [][\A p \in Procs :
          (req[p].pc \in UploadLoopPcs /\ req'[p].pc = "done"
                /\ req'[p].status # 201) =>
            /\ req'[p].status \in {400, 413, 500}
            /\ UNCHANGED <<folders, files, users, objects>>
            /\ \A k \in DOMAIN req[p].uploadedFiles :
                LET id == req[p].uploadedFiles[k].id
                IN  /\ id \in DOMAIN files' /\ ~files'[id].isDeleted
                    /\ files'[id].size = req[p].uploadedFiles[k].size
                    /\ files'[id].s3Key \in DOMAIN objects'
            /\ users'[req[p].userId].usedSpace
                    = req[p].user.usedSpace + SumSizes(req[p].uploadedFiles)]_vars

\* the second part of a request was of a type that is not allowed: 400, and
\* the first file is stored and counted
C26_Witness ==
    /\ req[1].pc = "done" /\ req[1].kind = "upload" /\ req[1].status = 400
    /\ Len(files) = 1 /\ ~files[1].isDeleted
    /\ files[1].s3Key \in DOMAIN objects
    /\ users[req[1].userId].usedSpace = files[1].size

\* C27: a download of an id that is no non-deleted File row of the caller is
\* answered 404 in its first step, before the object store is asked; a
\* download whose row is found is never answered 404: 200 with the object,
\* or 500 when the read fails or the key has no object; no step of a
\* download changes a row, an object or a counter.
C27_DownloadErrorKinds ==
    [][\A p \in Procs : (req'[p] # req[p] /\ req'[p].kind = "download") =>
          /\ UNCHANGED <<folders, files, users, objects>>
          /\ Free(p) =>
                IF FindLiveFile(req'[p].id, req'[p].userId) = NoFile
                THEN req'[p].pc = "done" /\ req'[p].status = 404
                ELSE req'[p].pc = "dl_object"
          /\ req[p].pc = "dl_object" =>
                /\ req'[p].pc = "done"
                /\ req'[p].status \in {200, 500}
                /\ req'[p].status = 200 => req[p].file.s3Key \in DOMAIN objects
                /\ req[p].file.s3Key \notin DOMAIN objects => req'[p].status = 500]_vars

\* a download of the caller's non-deleted file has been answered 500: the
\* object is not in the store
C27_Witness ==
    /\ req[1].pc = "done" /\ req[1].kind = "download" /\ req[1].status = 500
    /\ req[1].id \in DOMAIN files
    /\ files[req[1].id].userId = req[1].userId
    /\ ~files[req[1].id].isDeleted
    /\ files[req[1].id].s3Key \notin DOMAIN objects

\* the rows a listing step has just read with the query q, or <<>> when the
\* step has not answered q
JustRead(p, q) ==
    IF ~(q \in req[p].pending) THEN <<>>
    ELSE IF req'[p].pc = "done"
         THEN (IF q = "data" THEN req'[p].body.data ELSE req'[p].body.subfolders.data)
    ELSE IF q \in req'[p].pending THEN <<>>
    ELSE (IF q = "data" THEN req'[p].data ELSE req'[p].subfolders)

\* C28: the fileCount of every folder a folder list returns, and of every
\* subfolder a folder contents returns, is the number of non-deleted File
\* rows directly in that folder when the rows are read; a file uploaded into
\* the folder and then deleted is not counted.
C28_FileCountIsLive ==
    [][\A p \in Procs :
          /\ req[p].pc = "l_query" =>
                \A k \in DOMAIN JustRead(p, "data") :
                    JustRead(p, "data")[k].fileCount
                        = Cardinality(LiveFiles(JustRead(p, "data")[k].id))
          /\ req[p].pc = "ct_query" =>
                \A k \in DOMAIN JustRead(p, "subfolders") :
                    JustRead(p, "subfolders")[k].fileCount
                        = Cardinality(LiveFiles(JustRead(p, "subfolders")[k].id))]_vars

\* a page and its total as one state has them: the page holds the rows from
\* the offset on, up to the limit
PageOfOneState(response) ==
    LET pg == response.pagination
    IN  Len(response.data)
            = Min(pg.limit, Max(0, pg.total - (pg.page - 1) * pg.limit))

\* C29: the page and the total of a folder list response, and the pages and
\* totals of a folder contents response, are those of one state of the rows,
\* also when creates and deletes of the same user commit while the listing
\* is in progress: each page holds as many rows as its total leaves for it.
C29_OneLogicalView ==
    [][\A p \in Procs :
          /\ (req[p].pc = "l_query" /\ req'[p].pc = "done") =>
                PageOfOneState(req'[p].body)
          /\ (req[p].pc = "ct_query" /\ req'[p].pc = "done") =>
                /\ PageOfOneState(req'[p].body.subfolders)
                /\ PageOfOneState(req'[p].body.files)]_vars

\* C30: for every query (a value absent, zero, negative, above 100 or not a
\* number) parsePaginationParams returns page >= 1 and 1 <= limit <= 100, page
\* 1 and limit 20 for an absent value, and getPrismaOffsetLimit returns
\* skip = (page - 1) * limit and take = limit.
C30_PaginationNormalisation ==
    \A p \in Procs : req[p].kind = "pagination" =>
        LET query == req[p].body.query
            options == req[p].body.options
            offset == req[p].body.offset
        IN  /\ options.page >= 1
            /\ options.limit >= 1 /\ options.limit <= 100
            /\ query.page = Undefined => options.page = 1
            /\ query.limit = Undefined => options.limit = 20
            /\ query.page = <<"2">> => options.page = 2
            /\ query.limit = <<"2">> => options.limit = 2
            /\ offset.skip = (options.page - 1) * options.limit
            /\ offset.take = options.limit

\* a negative page with a limit above 100: page 1, limit 100, skip 0
C30_Witness ==
    /\ req[1].kind = "pagination"
    /\ req[1].body.query = [page |-> <<"-", "1">>, limit |-> <<"9", "9", "9">>]
    /\ req[1].body.options.page = 1
    /\ req[1].body.options.limit = 100
    /\ req[1].body.offset = [skip |-> 0, take |-> 100]

\* C31: for every total >= 0 and normalised page and limit the envelope has
\* totalPages = ceil(total / limit) (the least number of pages of limit rows
\* that hold total rows), hasPrev exactly when page > 1 and hasNext exactly
\* when page * limit < total; following hasNext from page 1 reads the rows
\* 0 .. total-1 in order, each once, and stops on a page with hasNext false.
C31_PaginationEnvelope ==
    \A p \in Procs : req[p].kind = "envelope" =>
        LET pg == req[p].response.pagination
            total == req[p].total
        IN  /\ pg.total = total
            /\ pg.totalPages * pg.limit >= total
            /\ pg.totalPages >= 0
            /\ pg.totalPages > 0 => (pg.totalPages - 1) * pg.limit < total
            /\ pg.hasPrev <=> pg.page > 1
            /\ pg.hasNext <=> pg.page * pg.limit < total
            /\ req[p].first = 1 =>
                  /\ req[p].visited = SubSeq(Items(total), 1, Min(total, pg.page * pg.limit))
                  /\ ~pg.hasNext => req[p].visited = Items(total)

\* five rows read two at a time from page 1: the third page is the last and
\* every row has been read once
C31_Witness ==
    /\ req[1].kind = "envelope" /\ req[1].first = 1 /\ req[1].total = 5
    /\ req[1].response.pagination.limit = 2
    /\ req[1].response.pagination.page = 3
    /\ req[1].response.pagination.totalPages = 3
    /\ ~req[1].response.pagination.hasNext
    /\ req[1].response.pagination.hasPrev
    /\ req[1].visited = <<0, 1, 2, 3, 4>>

\* C32: in every state in which no file delete is in progress, the s3Key of
\* every soft-deleted File row is the key of no object in the store.
C32_DeletedRowHasNoObject ==
    (\A p \in Procs : req[p].kind = "deleteFile" => req[p].pc = "done") =>
        \A f \in DOMAIN files :
            files[f].isDeleted => files[f].s3Key \notin DOMAIN objects

\* C33: initialize(), called any number of times and by two callers at once
\* while the bucket is missing, returns with success and with the bucket in
\* place; a create that finds the bucket already there counts as success.
C33_InitializeIdempotent ==
    \A p \in Procs : (req[p].kind = "initialize" /\ req[p].pc = "done") =>
        (req[p].status = "resolved" /\ bucket)

\* C34: in every state every Folder with a parentId has the userId of the
\* folder it refers to and every File with a folderId has the userId of that
\* folder; and the subfolders and files of a folder contents response, which
\* are selected by parentId and folderId alone, are rows of the caller.
C34_TenantConsistentReferences ==
    /\ \A i \in DOMAIN folders : folders[i].parentId # 0 =>
            /\ folders[i].parentId \in DOMAIN folders
            /\ folders[folders[i].parentId].userId = folders[i].userId
    /\ \A f \in DOMAIN files : files[f].folderId # 0 =>
            /\ files[f].folderId \in DOMAIN folders
            /\ folders[files[f].folderId].userId = files[f].userId
    /\ \A p \in Procs :
            (req[p].kind = "contents" /\ req[p].pc = "done" /\ req[p].status = 200) =>
                /\ \A k \in DOMAIN req[p].body.subfolders.data :
                        folders[req[p].body.subfolders.data[k].id].userId = req[p].userId
                /\ \A k \in DOMAIN req[p].body.files.data :
                        files[req[p].body.files.data[k].id].userId = req[p].userId

\* a contents response of a user lists a file of that user while the other
\* user has a file as well
C34_Witness ==
    /\ req[1].kind = "contents" /\ req[1].pc = "done" /\ req[1].status = 200
    /\ Len(req[1].body.files.data) = 1
    /\ files[req[1].body.files.data[1].id].folderId = req[1].id
    /\ \E f \in DOMAIN files : files[f].userId # req[1].userId
    /\ \E i \in DOMAIN folders : folders[i].userId # req[1].userId

\* the row i after a rename of folder id from path p to name and path q, as
\* the frame has it
RenamedRow(i, id, name, p, q) ==
    IF i = id THEN [folders[i] EXCEPT !.name = name, !.path = q]
    ELSE IF /\ folders[i].userId = folders[id].userId
            /\ StartsWith(folders[i].path, p \o <<"/">>)
         THEN [folders[i] EXCEPT !.path =
                    q \o SubSeq(folders[i].path, Len(p) + 1, Len(folders[i].path))]
    ELSE folders[i]

\* C35: a rename answered 200 changes the name and the path of its folder
\* and the path of every folder of the same user whose path began with the
\* old path and "/", to the new path followed by the unchanged rest; every
\* other Folder row and field, every File and every User is as before.
C35_RenameFrame ==
    [][\A p \in Procs :
          (req[p].kind = "renameFolder" /\ req[p].pc # "done"
                /\ req'[p].pc = "done" /\ req'[p].status = 200) =>
            /\ Len(folders') = Len(folders)
            /\ \A i \in DOMAIN folders :
                    folders'[i] = RenamedRow(i, req[p].id, req[p].name,
                                             folders[req[p].id].path,
                                             folders'[req[p].id].path)
            /\ UNCHANGED <<files, users, objects>>]_vars

\* C36: when requests are served one at a time and no store call fails,
\* between requests each user's usedSpace is the sum of the sizes of that
\* user's non-deleted File rows (the initial usedSpace is 0); inside an
\* upload it is the snapshot of the request plus the files stored so far.
C36_AccountingInvariant ==
    /\ (\A p \in Procs : Free(p)) =>
            \A u \in Users : users[u].usedSpace = SumLive(u, Len(files))
    /\ \A p \in Procs : (req[p].kind = "upload" /\ req[p].pc = "u_part") =>
            /\ req[p].user.usedSpace + SumSizes(req[p].uploadedFiles)
                    = SumLive(req[p].userId, Len(files))
            /\ users[req[p].userId].usedSpace = SumLive(req[p].userId, Len(files))

\* a user has uploaded two files and deleted one: usedSpace is the size of
\* the file that is left
C36_Witness ==
    /\ req[1].pc = "done" /\ req[1].kind = "deleteFile" /\ req[1].status = 204
    /\ Len(files) = 2
    /\ files[1].userId = req[1].userId /\ files[2].userId = req[1].userId
    /\ files[req[1].id].isDeleted
    /\ \E f \in DOMAIN files : ~files[f].isDeleted /\ files[f].size = 2
    /\ users[req[1].userId].usedSpace = 2

\* C37: under any interleaving of delete requests of the owner for one file
\* id, at most one of them is answered 204 and the others 404, and the size
\* of the file is taken from usedSpace once: no step that answers a delete
\* with 204 leaves usedSpace below the sizes of the non-deleted files.
C37_SubtractedAtMostOnce ==
    [][/\ \A p, q \in Procs :
            (/\ p # q
             /\ req'[p].kind = "deleteFile" /\ req'[q].kind = "deleteFile"
             /\ req'[p].pc = "done" /\ req'[q].pc = "done"
             /\ req'[p].id = req'[q].id /\ req'[p].id \in DOMAIN files) =>
                ~(req'[p].status = 204 /\ req'[q].status = 204)
       /\ \A p \in Procs :
            (req[p].pc = "fd_decrement" /\ req'[p].pc = "done"
                /\ req'[p].status = 204
                /\ \A q \in Procs : req[q].pc # "u_increment") =>
                users'[req[p].userId].usedSpace
                    >= SumLive(req[p].userId, Len(files'))]_vars

\* C38: under any interleaving of an upload into folder D, or of a create
\* of a child folder of D, with a delete of D, the racing request inserts no
\* row that refers to D once D is soft-deleted, and D is not marked deleted
\* while a non-deleted File or Folder refers to it.
C38_NoInsertIntoDeletedFolder ==
    [][\A p \in Procs :
          /\ (req[p].pc = "u_create" /\ Len(files') > Len(files)
                /\ req[p].id # 0) => ~folders'[req[p].id].isDeleted
          /\ (req[p].pc = "c_create" /\ Len(folders') > Len(folders)
                /\ req[p].id # 0) => ~folders'[req[p].id].isDeleted
          /\ (req[p].pc = "d_update" /\ folders'[req[p].id].isDeleted) =>
                /\ \A f \in DOMAIN files' :
                        files'[f].folderId = req[p].id => files'[f].isDeleted
                /\ \A c \in DOMAIN folders' :
                        folders'[c].parentId = req[p].id => folders'[c].isDeleted]_vars

\* C39: when creates of one user that compute the same path interleave, one
\* Folder row with the path is persisted and the create that finds the path
\* taken at its insert is answered 409, the duplicate-path conflict, and not
\* with a generic failure.
C39_ConcurrentCreateConflict ==
    [][\A p \in Procs : (req[p].pc = "c_create" /\ req'[p].pc = "done") =>
          /\ Cardinality({i \in DOMAIN folders' :
                    /\ folders'[i].userId = req[p].userId
                    /\ folders'[i].path = req[p].path}) = 1
          /\ IF RowsWithPath(req[p].userId, req[p].path) # {}
             THEN req'[p].status = 409 /\ folders' = folders
             ELSE req'[p].status = 201]_vars

\* C40: a rename of a folder to the name it has, when no store call fails,
\* is not refused by the conflict check, is answered 200 with the id, the
\* name and the path the folder had, and leaves the name and the path of
\* that folder and of every other Folder row as they were.
C40_RenameToCurrentName ==
    [][\A p \in Procs :
          (/\ req[p].kind = "renameFolder"
           /\ req[p].pc \in {"r_existing"} \cup TxPcs
           /\ req[p].name = req[p].folder.name
           /\ req'[p].pc = "done" /\ req'[p].status # 500) =>
            /\ req'[p].status = 200
            /\ req'[p].body = [id |-> req[p].id, name |-> req[p].folder.name,
                               path |-> req[p].folder.path]
            /\ Len(folders') = Len(folders)
            /\ \A i \in DOMAIN folders :
                    /\ folders'[i].name = folders[i].name
                    /\ folders'[i].path = folders[i].path]_vars

====
